---- MODULE Spec2Model ----
(***************************************************************************)
(* MoveCal: booking admission, approval state machine, auto-approval       *)
(* scheduler and payment reconciliation, modelled at the granularity of    *)
(* the database statements the handlers await.                             *)
(*                                                                         *)
(* Every handler runs as a process: one action per awaited database        *)
(* statement (or per batch transaction, which the database applies as one  *)
(* step).  The interactive transactions of the admission handlers run at   *)
(* the database's default isolation (no isolationLevel is passed to        *)
(* prisma.$transaction), so their read and their write are two steps that  *)
(* other handlers' statements may come between.                            *)
(*                                                                         *)
(* Time: booking start/end are minutes since Monday 2025-12-22 00:00; the  *)
(* wall clock (createdAt, approvedAt) is in hours since process start.     *)
(***************************************************************************)
EXTENDS Integers, Sequences, FiniteSets, TLC

VARIABLES
    users,          \* user id -> role ("NONE" when the row does not exist)
    bookings,       \* booking id -> booking row, for the rows that exist
    nextBookingId,  \* next booking id to hand out (ids are never reused)
    ledger,         \* payments_ledger rows, in insertion order
    approvals,      \* move_approvals rows, in insertion order
    audit,          \* audit_log rows, in insertion order
    now,            \* wall clock, hours
    proc,           \* process id -> the handler it runs and where it is
    resp,           \* the last response a handler gave
    reqLeft,        \* requests that may still be started
    outbox,         \* notification sends attempted, in order
    faults,         \* what the environment makes fail at the moment
    lastPollAt,     \* the poller's lastPollAt (NoTime while null)
    paidInvoices    \* invoice id -> when the invoicing service marked it paid

vars == <<users, bookings, nextBookingId, ledger, approvals, audit, now, proc, resp, reqLeft,
          outbox, faults, lastPollAt, paidInvoices>>

----------------------------------------------------------------------------
\* Bounds of the model

MaxProcs == 2
MaxRequests == 4
MaxNow == 36
TickHours == 12

\* Program constants

BUFFER_MINUTES == 60
MOVE_START_HOUR == 8
MOVE_END_HOUR == 17
AUTO_APPROVE_HOURS == 24
STARTUP_LOOKBACK_HOURS == 24

Procs == 1..MaxProcs

NoUser == "null"
NoTime == -1
InvoiceIds == {"inv1", "inv2", "inv3"}
NoBooking == 0
NoUnit == <<>>

\* Seeded accounts (seed.ts) and one more account created by user management
Concierge == "concierge"
Manager == "manager"
Council == "council"
UserIds == {Concierge, Manager, Council}
Roles == {"CONCIERGE", "COUNCIL", "PROPERTY_MANAGER"}
overrideRoles == {"COUNCIL", "PROPERTY_MANAGER"}

ActiveStatuses == {"SUBMITTED", "PENDING", "APPROVED"}
BookingStatus == {"SUBMITTED", "PENDING", "APPROVED", "REJECTED", "CANCELLED"}

----------------------------------------------------------------------------
\* Calendar helpers (dayjs on a Date)

MinutesPerDay == 24 * 60

DayOf(t) == t \div MinutesPerDay
MinuteOfDay(t) == t % MinutesPerDay
HourOf(t) == MinuteOfDay(t) \div 60
MinuteOf(t) == MinuteOfDay(t) % 60

\* dayjs().day(): 0 = Sunday .. 6 = Saturday; day 0 of the model is a Monday
DayOfWeek(t) == (DayOf(t) + 1) % 7

At(day, hour, minute) == day * MinutesPerDay + hour * 60 + minute

\* a holiday calendar with no date of the modelled week in it
HolidaysElsewhere == {}

\* STATUTORY_HOLIDAYS within the modelled week: 2025-12-25 and 2025-12-26
STATUTORY_HOLIDAYS == {3, 4}

WEEKDAY_SLOTS == {<<10 * 60, 13 * 60>>, <<13 * 60, 16 * 60>>}
WEEKEND_SLOTS == {<<8 * 60, 11 * 60>>, <<11 * 60, 14 * 60>>, <<14 * 60, 17 * 60>>}
\* a weekday range as wide as the weekend's
DeliveryRenoAllDay == <<8 * 60, 17 * 60>>

DELIVERY_RENO_WEEKDAY == <<10 * 60, 16 * 60>>
DELIVERY_RENO_WEEKEND == <<8 * 60, 17 * 60>>

\* a slot test that lets the interval end in a later slot
fitsInSlots(startMins, endMins, slots) ==
    /\ \E s \in slots : startMins >= s[1] /\ startMins < s[2]
    /\ \E s \in slots : endMins > s[1] /\ endMins <= s[2]

fitsInSlot(startMins, endMins, slots) ==
    \E s \in slots : startMins >= s[1] /\ endMins <= s[2]

\* validateMoveTime: "ok" or the reason of the rejection
validateMoveTime(start, end, moveType) ==
    LET startMins == MinuteOfDay(start)
        endMins == MinuteOfDay(end)
        isWeekend == DayOfWeek(start) = 0 \/ DayOfWeek(start) = 6
        range == IF isWeekend THEN DELIVERY_RENO_WEEKEND ELSE DELIVERY_RENO_WEEKDAY
    IN  IF ~(start < end) THEN "invalid_range"
        ELSE IF DayOf(start) # DayOf(end) THEN "cross_day"
        ELSE IF DayOf(start) \in STATUTORY_HOLIDAYS THEN "holiday"
        ELSE IF moveType = "DELIVERY" THEN
            IF end - start # 30 THEN "wrong_duration"
            ELSE IF startMins < range[1] \/ endMins > range[2] THEN "outside_hours"
            ELSE "ok"
        ELSE IF moveType = "RENO" THEN
            IF end - start # 60 THEN "wrong_duration"
            ELSE IF startMins < range[1] \/ endMins > range[2] THEN "outside_hours"
            ELSE "ok"
        ELSE IF isWeekend THEN
            IF fitsInSlot(startMins, endMins, WEEKEND_SLOTS) THEN "ok" ELSE "outside_hours"
        ELSE
            IF fitsInSlot(startMins, endMins, WEEKDAY_SLOTS) THEN "ok" ELSE "outside_hours"

\* an hours check that only compares end with start
validateMoveHoursOrderOnly(start, end) == end > start

\* validateMoveHours: TRUE when it does not throw
validateMoveHours(start, end) ==
    /\ end > start
    /\ ~(\/ HourOf(start) < MOVE_START_HOUR
         \/ HourOf(end) > MOVE_END_HOUR
         \/ (HourOf(end) = MOVE_END_HOUR /\ MinuteOf(end) > 0))

\* a conflict test whose buffer reaches the boundary (<= for <, >= for >)
hasElevatorConflictInclusive(existing, candidate) ==
    /\ candidate.elevatorRequired
    /\ \E b \in existing :
        /\ b.elevatorRequired
        /\ candidate.start - BUFFER_MINUTES <= b.end
        /\ candidate.end + BUFFER_MINUTES >= b.start

\* a conflict test that looks at every existing row, elevator or not
hasElevatorConflictAnyRow(existing, candidate) ==
    /\ candidate.elevatorRequired
    /\ \E b \in existing :
        /\ candidate.start - BUFFER_MINUTES < b.end
        /\ candidate.end + BUFFER_MINUTES > b.start

\* a conflict test whose buffer lies only before the candidate
hasElevatorConflictBufferBefore(existing, candidate) ==
    /\ candidate.elevatorRequired
    /\ \E b \in existing :
        /\ b.elevatorRequired
        /\ candidate.start - BUFFER_MINUTES < b.end
        /\ candidate.end > b.start

\* hasElevatorConflict(existing, candidate)
hasElevatorConflict(existing, candidate) ==
    /\ candidate.elevatorRequired
    /\ \E b \in existing :
        /\ b.elevatorRequired
        /\ candidate.start - BUFFER_MINUTES < b.end
        /\ candidate.end + BUFFER_MINUTES > b.start

Rows(f) == {f[i] : i \in DOMAIN f}

\* startDatetime: { lte: bufferEnd }, endDatetime: { gte: bufferStart }
withinWindow(b, candidate) ==
    /\ b.start <= candidate.end + BUFFER_MINUTES
    /\ b.end >= candidate.start - BUFFER_MINUTES

\* a findMany without the id exclusion
conflictRowsWithSelf(candidate) ==
    {b \in Rows(bookings) :
        /\ b.elevatorRequired
        /\ b.status \in ActiveStatuses
        /\ withinWindow(b, candidate)}

\* the findMany of assertNoConflict: the rows its where clause selects
conflictRows(candidate) ==
    {b \in Rows(bookings) :
        /\ b.elevatorRequired
        /\ b.status \in ActiveStatuses
        /\ (candidate.id # NoBooking => b.id # candidate.id)
        /\ withinWindow(b, candidate)}

\* assertNoConflict: "ok" when it returns, else the error it throws
assertNoConflict(candidate, allowOverride) ==
    IF ~validateMoveHours(candidate.start, candidate.end) THEN "hours"
    ELSE IF ~allowOverride /\ hasElevatorConflict(conflictRows(candidate), candidate) THEN "conflict"
    ELSE "ok"

----------------------------------------------------------------------------
\* Processes

Idle == [op |-> "idle", pc |-> "idle"]

\* Idle workers are interchangeable: a new request takes the first one
FreeProc(p) == proc[p] = Idle /\ \A q \in Procs : q < p => proc[q] # Idle

Begin(p) == reqLeft > 0 /\ FreeProc(p)

Respond(op, res) == resp' = [op |-> op, res |-> res]

Finish(p, op, res) ==
    /\ proc' = [proc EXCEPT ![p] = Idle]
    /\ Respond(op, res)

\* prisma.user.findFirst({ where: { role: CONCIERGE } }): any of them
Concierges == {u \in UserIds : users[u] = "CONCIERGE"}

\* sendEmail to the resident and sendNotificationRecipients: one attempt,
\* which the mail transport delivers or fails
Send(to, event, bookingId) ==
    [to |-> to, event |-> event, bookingId |-> bookingId, delivered |-> "smtp" \notin faults]

\* a send whose rejection reaches the handler
Rethrow(res) == IF "smtp" \in faults THEN "error" ELSE res

\* .catch((err) => log.error(...)) on every send: the handler goes on to
\* its own result
CatchLog(res) == res

logAudit(actorUserId, action, bookingId) ==
    [actorUserId |-> actorUserId, action |-> action, bookingId |-> bookingId]

\* tx.booking.create
NewBooking(req, status, createdById, approvedById, approvedAt) ==
    [id |-> nextBookingId,
     unit |-> req.unit, moveType |-> req.moveType, moveMonth |-> req.moveMonth,
     start |-> req.start, end |-> req.end,
     elevatorRequired |-> req.elevatorRequired,
     status |-> status,
     createdById |-> createdById, approvedById |-> approvedById,
     approvedAt |-> approvedAt, createdAt |-> now]

InsertBooking(row) ==
    /\ bookings' = bookings @@ (row.id :> row)
    /\ nextBookingId' = nextBookingId + 1

Candidate(id, start, end, elevatorRequired) ==
    [id |-> id, start |-> start, end |-> end, elevatorRequired |-> elevatorRequired]

----------------------------------------------------------------------------
\* POST /api/bookings

\* validateMoveTime, the system user lookup and, inside the transaction, the
\* conflict read of assertNoConflict
SubmitCheck(p, req) ==
    /\ Begin(p)
    /\ reqLeft' = reqLeft - 1
    /\ LET tv == validateMoveTime(req.start, req.end, req.moveType)
           cf == assertNoConflict(Candidate(NoBooking, req.start, req.end, req.elevatorRequired), FALSE)
       IN  IF tv # "ok" THEN Finish(p, "submit", tv)
           ELSE IF Concierges = {} THEN Finish(p, "submit", "no_concierge")
           ELSE IF cf # "ok" THEN Finish(p, "submit", cf)
           ELSE /\ \E u \in Concierges :
                    proc' = [proc EXCEPT ![p] = [op |-> "submit", pc |-> "create", req |-> req, systemUser |-> u]]
                /\ UNCHANGED resp
    /\ UNCHANGED <<users, bookings, nextBookingId, ledger, approvals, audit, now, outbox, faults, lastPollAt, paidInvoices>>

\* tx.booking.create and the commit
\* bookings.created_by REFERENCES users: the insert throws when the user row
\* that was read has been deleted since
SubmitCreate(p) ==
    /\ proc[p].op = "submit" /\ proc[p].pc = "create"
    /\ IF users[proc[p].systemUser] = "NONE"
       THEN Finish(p, "submit", "error") /\ UNCHANGED <<bookings, nextBookingId, outbox>>
       ELSE /\ InsertBooking(NewBooking(proc[p].req, "SUBMITTED", proc[p].systemUser, NoUser, NoTime))
            /\ outbox' = outbox \o <<Send("recipients", "SUBMITTED", nextBookingId),
                                      Send("resident", "SUBMITTED", nextBookingId)>>
            /\ Finish(p, "submit", CatchLog("ok"))
    /\ UNCHANGED <<users, ledger, approvals, audit, now, reqLeft, faults, lastPollAt, paidInvoices>>

----------------------------------------------------------------------------
\* POST /api/intake/email

IntakeCheck(p, req) ==
    /\ Begin(p)
    /\ reqLeft' = reqLeft - 1
    /\ LET tv == validateMoveTime(req.start, req.end, "undefined")
           cf == assertNoConflict(Candidate(NoBooking, req.start, req.end, req.elevatorRequired), FALSE)
       IN  IF tv # "ok" THEN Finish(p, "intake", tv)
           ELSE IF Concierges = {} THEN Finish(p, "intake", "no_concierge")
           ELSE IF cf # "ok" THEN Finish(p, "intake", cf)
           ELSE /\ \E u \in Concierges :
                    proc' = [proc EXCEPT ![p] = [op |-> "intake", pc |-> "create", req |-> req, systemUser |-> u]]
                /\ UNCHANGED resp
    /\ UNCHANGED <<users, bookings, nextBookingId, ledger, approvals, audit, now, outbox, faults, lastPollAt, paidInvoices>>

IntakeCreate(p) ==
    /\ proc[p].op = "intake" /\ proc[p].pc = "create"
    /\ InsertBooking(NewBooking(proc[p].req, "PENDING", proc[p].systemUser, NoUser, NoTime))
    /\ Finish(p, "intake", "ok")
    /\ UNCHANGED <<users, ledger, approvals, audit, now, reqLeft, outbox, faults, lastPollAt, paidInvoices>>

----------------------------------------------------------------------------
\* POST /api/admin/quick-entry/approve

QuickCheck(p, actor, req) ==
    /\ Begin(p)
    /\ users[actor] \in Roles
    /\ reqLeft' = reqLeft - 1
    /\ LET allowOverride == users[actor] \in overrideRoles
           tv == IF allowOverride THEN "ok" ELSE validateMoveTime(req.start, req.end, req.moveType)
           cf == assertNoConflict(Candidate(NoBooking, req.start, req.end, req.elevatorRequired), allowOverride)
       IN  IF tv # "ok" THEN Finish(p, "quickApprove", tv)
           ELSE IF cf # "ok" THEN Finish(p, "quickApprove", cf)
           ELSE /\ proc' = [proc EXCEPT ![p] = 
                        [op |-> "quickApprove", pc |-> "create", req |-> req, user |-> actor,
                         allowOverride |-> allowOverride]]
                /\ UNCHANGED resp
    /\ UNCHANGED <<users, bookings, nextBookingId, ledger, approvals, audit, now, outbox, faults, lastPollAt, paidInvoices>>

\* tx.booking.create, the commit, and the audit entry that follows it
QuickCreate(p) ==
    /\ proc[p].op = "quickApprove" /\ proc[p].pc = "create"
    /\ IF users[proc[p].user] = "NONE"
       THEN Finish(p, "quickApprove", "error") /\ UNCHANGED <<bookings, nextBookingId, audit>>
       ELSE /\ InsertBooking(NewBooking(proc[p].req, "APPROVED", proc[p].user, proc[p].user, now))
            /\ audit' = Append(audit, logAudit(proc[p].user, "BOOKING_QUICK_APPROVED", nextBookingId))
            /\ Finish(p, "quickApprove", "ok")
    /\ UNCHANGED <<users, ledger, approvals, now, reqLeft, outbox, faults, lastPollAt, paidInvoices>>

----------------------------------------------------------------------------
\* PATCH /api/admin/bookings/:id
\* body: status ("undefined" when absent), start, end (NoTime when absent),
\* overrideConflict

NoStatus == "undefined"

\* a time check that takes every booking for a move
DecideTimeCheckAsMove(existing, body, allowOverride) ==
    IF (body.start # NoTime \/ body.end # NoTime) /\ ~allowOverride
    THEN validateMoveTime(IF body.start # NoTime THEN body.start ELSE existing.start,
                          IF body.end # NoTime THEN body.end ELSE existing.end,
                          "MOVE_IN")
    ELSE "ok"

\* validateMoveTime(newStart, newEnd, existing.moveType) when times are
\* sent and the actor does not override
DecideTimeCheck(existing, body, allowOverride) ==
    IF (body.start # NoTime \/ body.end # NoTime) /\ ~allowOverride
    THEN validateMoveTime(IF body.start # NoTime THEN body.start ELSE existing.start,
                          IF body.end # NoTime THEN body.end ELSE existing.end,
                          existing.moveType)
    ELSE "ok"

\* findUniqueOrThrow, validateMoveTime on edited times, and the conflict read
DecideCheck(p, actor, bookingId, body) ==
    /\ Begin(p)
    /\ users[actor] \in Roles
    /\ reqLeft' = reqLeft - 1
    /\ IF bookingId \notin DOMAIN bookings THEN Finish(p, "decide", "not_found")
       ELSE
         LET existing == bookings[bookingId]
             allowOverride == users[actor] \in overrideRoles /\ body.overrideConflict
             newStart == IF body.start # NoTime THEN body.start ELSE existing.start
             newEnd == IF body.end # NoTime THEN body.end ELSE existing.end
             tv == DecideTimeCheck(existing, body, allowOverride)
             cf == assertNoConflict(Candidate(existing.id, newStart, newEnd, existing.elevatorRequired), allowOverride)
         IN  IF tv # "ok" THEN Finish(p, "decide", tv)
             ELSE IF cf # "ok" THEN Finish(p, "decide", cf)
             ELSE /\ proc' = [proc EXCEPT ![p] =
                        [op |-> "decide", pc |-> "update", existing |-> existing, body |-> body,
                         user |-> actor, allowOverride |-> allowOverride]]
                  /\ UNCHANGED resp
    /\ UNCHANGED <<users, bookings, nextBookingId, ledger, approvals, audit, now, outbox, faults, lastPollAt, paidInvoices>>

\* the rows logAudit writes after the update
DecideAudit(user, id, body, allowOverride) ==
    (IF allowOverride THEN <<logAudit(user, "CONFLICT_OVERRIDE", id)>> ELSE <<>>)
    \o (IF body.status = "APPROVED" THEN <<logAudit(user, "BOOKING_APPROVED", id)>> ELSE <<>>)
    \o (IF body.status = "REJECTED" THEN <<logAudit(user, "BOOKING_REJECTED", id)>> ELSE <<>>)

\* tx.booking.update({ where: { id }, data })
DecideUpdateRow(row, existing, body, user) ==
    [row EXCEPT
        !.status = IF body.status # NoStatus THEN body.status ELSE existing.status,
        !.start = IF body.start # NoTime THEN body.start ELSE @,
        !.end = IF body.end # NoTime THEN body.end ELSE @,
        !.approvedById = IF body.status = "APPROVED" THEN user ELSE @,
        !.approvedAt = IF body.status = "APPROVED" THEN now ELSE @]

\* the sends of the decide handler: to the resident, then to the recipients
DecideSends(id, body) ==
    IF body.status \in {"APPROVED", "REJECTED"}
    THEN <<Send("resident", body.status, id), Send("recipients", body.status, id)>>
    ELSE <<>>

\* tx.booking.update, the commit, the sends and the audit entries
DecideUpdate(p) ==
    /\ proc[p].op = "decide" /\ proc[p].pc = "update"
    /\ LET id == proc[p].existing.id
       IN  IF id \notin DOMAIN bookings
           THEN /\ Finish(p, "decide", "not_found")
                /\ UNCHANGED <<bookings, audit, outbox>>
           ELSE /\ bookings' = [bookings EXCEPT ![id] =
                        DecideUpdateRow(@, proc[p].existing, proc[p].body, proc[p].user)]
                /\ outbox' = outbox \o DecideSends(id, proc[p].body)
                /\ audit' = audit \o DecideAudit(proc[p].user, id, proc[p].body, proc[p].allowOverride)
                /\ Finish(p, "decide", CatchLog("ok"))
    /\ UNCHANGED <<users, nextBookingId, ledger, approvals, now, reqLeft, faults, lastPollAt, paidInvoices>>

----------------------------------------------------------------------------
\* DELETE /api/admin/bookings/:id

\* a delete that leaves the audit log as it is
KeepAudit(log, bookingId) == log

\* auditLog.updateMany({ where: { bookingId }, data: { bookingId: null } })
NullifyAudit(log, bookingId) ==
    [i \in DOMAIN log |->
        IF log[i].bookingId = bookingId THEN [log[i] EXCEPT !.bookingId = NoBooking] ELSE log[i]]

RemoveBooking(bookingId) ==
    [i \in DOMAIN bookings \ {bookingId} |-> bookings[i]]

DeleteBooking(actor, bookingId) ==
    /\ reqLeft > 0
    /\ users[actor] \in Roles
    /\ reqLeft' = reqLeft - 1
    /\ IF bookingId \notin DOMAIN bookings
       THEN /\ Respond("delete", "not_found")
            /\ UNCHANGED <<bookings, audit>>
       ELSE /\ bookings' = RemoveBooking(bookingId)
            /\ audit' = Append(NullifyAudit(audit, bookingId), logAudit(actor, "BOOKING_DELETED", NoBooking))
            /\ Respond("delete", "ok")
    /\ UNCHANGED <<users, nextBookingId, ledger, approvals, now, proc, outbox, faults, lastPollAt, paidInvoices>>

----------------------------------------------------------------------------
\* runAutoApproval (autoApprovalService.ts), started by a timer

\* the findMany: SUBMITTED rows created before the cutoff
StaleSubmitted ==
    {b \in DOMAIN bookings :
        bookings[b].status = "SUBMITTED" /\ bookings[b].createdAt < now - AUTO_APPROVE_HOURS}

SweepSelect(p) ==
    /\ FreeProc(p)
    /\ IF Concierges = {} THEN Finish(p, "sweep", "no_concierge")
       ELSE IF StaleSubmitted = {} THEN Finish(p, "sweep", "ok")
       ELSE /\ \E u \in Concierges :
                proc' = [proc EXCEPT ![p] = [op |-> "sweep", pc |-> "update", pending |-> StaleSubmitted, systemUser |-> u]]
            /\ UNCHANGED resp
    /\ UNCHANGED <<users, bookings, nextBookingId, ledger, approvals, audit, now, reqLeft, outbox, faults, lastPollAt, paidInvoices>>

\* prisma.booking.update({ where: { id }, data }) of the sweep
SweepUpdateRow(row, systemUser) ==
    [row EXCEPT !.status = "APPROVED", !.approvedById = systemUser, !.approvedAt = now]

\* one iteration of the loop: update, notifications, audit entry; an update
\* that throws (the row is gone) is caught and the loop goes on
SweepUpdate(p) ==
    /\ proc[p].op = "sweep" /\ proc[p].pc = "update"
    /\ \E b \in proc[p].pending :
        /\ IF b \in DOMAIN bookings
           THEN /\ bookings' = [bookings EXCEPT ![b] = SweepUpdateRow(@, proc[p].systemUser)]
                /\ outbox' = outbox \o <<Send("resident", "APPROVED", b), Send("recipients", "APPROVED", b)>>
                /\ audit' = Append(audit, logAudit(proc[p].systemUser, "BOOKING_AUTO_APPROVED", b))
           ELSE UNCHANGED <<bookings, audit, outbox>>
        /\ IF proc[p].pending = {b}
           THEN Finish(p, "sweep", CatchLog("ok"))
           ELSE /\ proc' = [proc EXCEPT ![p].pending = @ \ {b}]
                /\ UNCHANGED resp
    /\ UNCHANGED <<users, nextBookingId, ledger, approvals, now, reqLeft, faults, lastPollAt, paidInvoices>>

Tick ==
    /\ now + TickHours <= MaxNow
    /\ now' = now + TickHours
    /\ UNCHANGED <<users, bookings, nextBookingId, ledger, approvals, audit, proc, resp, reqLeft, outbox, faults, lastPollAt, paidInvoices>>

----------------------------------------------------------------------------
\* User management (adminRoutes)

\* POST /api/admin/users
CreateUser(actor, userId, role) ==
    /\ reqLeft > 0
    /\ users[actor] \in overrideRoles
    /\ users[userId] = "NONE"
    /\ reqLeft' = reqLeft - 1
    /\ users' = [users EXCEPT ![userId] = role]
    /\ audit' = Append(audit, logAudit(actor, "USER_CREATED", NoBooking))
    /\ Respond("createUser", "ok")
    /\ UNCHANGED <<bookings, nextBookingId, ledger, approvals, now, proc, outbox, faults, lastPollAt, paidInvoices>>

\* PATCH /api/admin/users/:id with a role
UpdateUser(actor, userId, role) ==
    /\ reqLeft > 0
    /\ users[actor] \in overrideRoles
    /\ users[userId] \in Roles
    /\ reqLeft' = reqLeft - 1
    /\ IF userId = actor
       THEN /\ Respond("updateUser", "self")
            /\ UNCHANGED <<users, audit>>
       ELSE /\ users' = [users EXCEPT ![userId] = role]
            /\ audit' = Append(audit, logAudit(actor, "USER_UPDATED", NoBooking))
            /\ Respond("updateUser", "ok")
    /\ UNCHANGED <<bookings, nextBookingId, ledger, approvals, now, proc, outbox, faults, lastPollAt, paidInvoices>>

\* DELETE /api/admin/users/:id: the self test, user.findUnique, user.count
\* and the findFirst of a fallback concierge
DeleteUserCheck(p, actor, userId) ==
    /\ Begin(p)
    /\ users[actor] \in overrideRoles
    /\ reqLeft' = reqLeft - 1
    /\ IF userId = actor THEN Finish(p, "deleteUser", "self")
       ELSE IF users[userId] = "NONE" THEN Finish(p, "deleteUser", "not_found")
       ELSE IF users[userId] = "CONCIERGE" /\ Cardinality(Concierges) <= 1
            THEN Finish(p, "deleteUser", "last_concierge")
       ELSE IF Concierges \ {userId} = {} THEN Finish(p, "deleteUser", "no_fallback")
       ELSE /\ \E u \in Concierges \ {userId} :
                proc' = [proc EXCEPT ![p] =
                    [op |-> "deleteUser", pc |-> "tx", user |-> actor, userId |-> userId, systemUser |-> u]]
            /\ UNCHANGED resp
    /\ UNCHANGED <<users, bookings, nextBookingId, ledger, approvals, audit, now, outbox, faults, lastPollAt, paidInvoices>>

\* booking.updateMany createdById and approvedById
RehomeBookings(userId, systemUser) ==
    [b \in DOMAIN bookings |->
        [bookings[b] EXCEPT
            !.createdById = IF @ = userId THEN systemUser ELSE @,
            !.approvedById = IF @ = userId THEN NoUser ELSE @]]

\* auditLog.updateMany actorUserId
RehomeAudit(userId, systemUser) ==
    [i \in DOMAIN audit |->
        [audit[i] EXCEPT !.actorUserId = IF @ = userId THEN systemUser ELSE @]]

\* rows the batch would point at the fallback user
RefersTo(userId) ==
    \/ \E b \in DOMAIN bookings : bookings[b].createdById = userId
    \/ \E i \in DOMAIN audit : audit[i].actorUserId = userId

\* the batch transaction and the audit entry after it. The batch throws, and
\* changes nothing, when the user is gone or when a row would be pointed at a
\* fallback user who is gone; the audit entry needs the acting user's row
DeleteUserTx(p) ==
    /\ proc[p].op = "deleteUser" /\ proc[p].pc = "tx"
    /\ LET userId == proc[p].userId
           systemUser == proc[p].systemUser
       IN  IF \/ users[userId] = "NONE"
              \/ RefersTo(userId) /\ users[systemUser] = "NONE"
           THEN Finish(p, "deleteUser", "error") /\ UNCHANGED <<users, bookings, audit>>
           ELSE /\ users' = [users EXCEPT ![userId] = "NONE"]
                /\ bookings' = RehomeBookings(userId, systemUser)
                /\ IF users[proc[p].user] = "NONE"
                   THEN audit' = RehomeAudit(userId, systemUser) /\ Finish(p, "deleteUser", "error")
                   ELSE /\ audit' = Append(RehomeAudit(userId, systemUser),
                                           logAudit(proc[p].user, "USER_DELETED", NoBooking))
                        /\ Finish(p, "deleteUser", "ok")
    /\ UNCHANGED <<nextBookingId, ledger, approvals, now, reqLeft, outbox, faults, lastPollAt, paidInvoices>>

----------------------------------------------------------------------------
\* The environment: the mail transport (smtp) and the delivery handlers'
\* writes to payments_ledger (ledgerWrite) fail for a while and work again

FaultKinds == {"smtp", "ledgerWrite"}

Fail(c) ==
    /\ c \notin faults
    /\ faults' = faults \cup {c}
    /\ UNCHANGED <<users, bookings, nextBookingId, ledger, approvals, audit, now, proc, resp, reqLeft, outbox, lastPollAt, paidInvoices>>

Recover(c) ==
    /\ c \in faults
    /\ faults' = faults \ {c}
    /\ UNCHANGED <<users, bookings, nextBookingId, ledger, approvals, audit, now, proc, resp, reqLeft, outbox, lastPollAt, paidInvoices>>

----------------------------------------------------------------------------
\* Payment reconciliation
\*
\* A unit is the sequence of its dash-separated segments: "1105" is
\* <<"1105">>, "T4-1105" is <<"T4", "1105">>; a null unit is <<>>.
\* An invoice payload is [id, client_id, words, unit, period]: words are the
\* vocabulary of its first line item, unit what extractUnit finds in it,
\* period the month of its date.

moveInPatterns == {"move in", "moving in", "movein", "into"}
moveOutPatterns == {"move out", "moving out", "moveout", "out", "exit", "vacate"}

\* classifyFeeType (layer 1): the move-in vocabulary is tried first
classifyFeeType(words) ==
    IF words \cap moveInPatterns # {} THEN "move_in"
    ELSE IF words \cap moveOutPatterns # {} THEN "move_out"
    ELSE "null"

\* the fee types the classification can end with: layer 1, else whatever
\* the external classifier answers, else unknown
FeeTypesOf(words) ==
    IF classifyFeeType(words) # "null" THEN {classifyFeeType(words)}
    ELSE {"move_in", "move_out", "unknown"}

moveTypeFilter(feeType) == IF feeType = "move_in" THEN "MOVE_IN" ELSE "MOVE_OUT"

\* unit.endsWith(`-${suffix}`)
EndsWithDash(unit, suffix) ==
    /\ Len(unit) > Len(suffix)
    /\ SubSeq(unit, Len(unit) - Len(suffix) + 1, Len(unit)) = suffix

\* [unit] plus unit.split('-').pop() when the unit has a dash
unitVariants(unit) ==
    {unit} \cup (IF Len(unit) > 1 THEN {<<unit[Len(unit)]>>} ELSE {})

LedgerRow(inv, feeType) ==
    [clientId |-> inv.client_id, invoiceId |-> inv.id, billingPeriod |-> inv.period,
     feeType |-> feeType, unit |-> inv.unit, paidAt |-> now,
     dismissed |-> FALSE, dismissedReason |-> "null", dismissedAt |-> NoTime]

HasLedgerRow(invoiceId) == \E i \in DOMAIN ledger : ledger[i].invoiceId = invoiceId

\* a ledger whose invoice_id column carries no unique index
LedgerInsertUnchecked(invoiceId) == TRUE

\* payments_ledger.invoice_id is UNIQUE: an insert of a recorded invoice fails
LedgerInsertAllowed(invoiceId) == ~HasLedgerRow(invoiceId)

HasApproval(invoiceId) == \E i \in DOMAIN approvals : approvals[i].invoiceId = invoiceId

ApprovalRow(bookingId, payment, billingPeriod) ==
    [moveRequestId |-> bookingId, clientId |-> payment.clientId,
     invoiceId |-> payment.invoiceId, billingPeriod |-> billingPeriod]

\* the handler's own search for a booking before checkAndApproveMoveRequest
\* `tolerant`: the unit suffix is tried too; `byMonth`: moveDate must lie in
\* the billing month
matchingBookings(unit, feeType, period, tolerant, byMonth) ==
    {b \in DOMAIN bookings :
        /\ bookings[b].unit \in (IF tolerant THEN unitVariants(unit) ELSE {unit})
        /\ bookings[b].moveType = moveTypeFilter(feeType)
        /\ (byMonth => bookings[b].moveMonth = period)
        /\ bookings[b].status \in {"SUBMITTED", "PENDING"}}

\* checkAndApproveMoveRequest, lines 18-28: the ledger rows its findFirst may return
unmatchedPayments(unit, feeType) ==
    {i \in DOMAIN ledger :
        /\ (ledger[i].unit = unit \/ EndsWithDash(ledger[i].unit, unit))
        /\ ledger[i].feeType = feeType
        /\ ~HasApproval(ledger[i].invoiceId)
        /\ ~ledger[i].dismissed}

\* the invoices the poll loop has still to take after the current one
Rest(p) == IF "rest" \in DOMAIN proc[p] THEN proc[p].rest ELSE <<>>

\* the locals of the next statement, beside those of the poll loop
Keep(p, locals) == IF "rest" \in DOMAIN proc[p] THEN locals @@ [rest |-> proc[p].rest] ELSE locals

\* a loop that an invoice's failure ends
StopOnError(p, res) ==
    IF res = "error" \/ Rest(p) = <<>> THEN Idle
    ELSE [op |-> "poll", pc |-> "find", inv |-> Head(Rest(p)), rest |-> Tail(Rest(p))]

\* for (const invoice of invoices) await processInvoice(invoice, log).catch(...):
\* however the invoice ended, the loop takes the next one
NextItem(p, res) ==
    IF Rest(p) = <<>> THEN Idle
    ELSE [op |-> "poll", pc |-> "find", inv |-> Head(Rest(p)), rest |-> Tail(Rest(p))]

\* the end of a handler that may be running inside the poll loop
EndItem(p, op, res) ==
    /\ proc' = [proc EXCEPT ![p] = NextItem(p, res)]
    /\ Respond(op, res)

\* The handler's booking search followed by the reads of
\* checkAndApproveMoveRequest (payment, existing approval, booking status)
MatchRead(p) ==
    /\ proc[p].pc = "match"
    /\ LET m == proc[p]
           found == matchingBookings(m.unit, m.feeType, m.period, m.tolerant, m.byMonth)
           pays == unmatchedPayments(m.unit, m.feeType)
       IN  IF found = {} \/ m.feeType = "unknown" \/ pays = {}
           THEN EndItem(p, m.op, "not_approved")
           ELSE /\ \E b \in found, i \in pays :
                    proc' = [proc EXCEPT ![p] = Keep(p,
                        [op |-> m.op, pc |-> "tx", invoiceId |-> m.invoiceId, bookingId |-> b,
                         payment |-> ledger[i], period |-> m.period])]
                /\ UNCHANGED resp
    /\ UNCHANGED <<users, bookings, nextBookingId, ledger, approvals, audit, now, reqLeft, outbox, faults, lastPollAt, paidInvoices>>

\* prisma.booking.update of checkAndApproveMoveRequest
MatchUpdateRow(row) == [row EXCEPT !.status = "APPROVED", !.approvedAt = now]

\* prisma.$transaction([moveApproval.create, booking.update]): one step; when
\* the booking row is gone the update throws and the batch rolls back
MatchTx(p) ==
    /\ proc[p].pc = "tx"
    /\ LET m == proc[p]
       IN  IF m.bookingId \notin DOMAIN bookings
           THEN /\ EndItem(p, m.op, "error")
                /\ UNCHANGED <<bookings, approvals>>
           ELSE /\ approvals' = Append(approvals, ApprovalRow(m.bookingId, m.payment, m.period))
                /\ bookings' = [bookings EXCEPT ![m.bookingId] = MatchUpdateRow(@)]
                /\ EndItem(p, m.op, "approved")
    /\ UNCHANGED <<users, nextBookingId, ledger, audit, now, reqLeft, outbox, faults, lastPollAt, paidInvoices>>

\* `invoiceId`: the invoice whose ingestion or reclassification is being handled
MatchLocals(op, invoiceId, unit, feeType, period, tolerant, byMonth) ==
    [op |-> op, pc |-> "match", invoiceId |-> invoiceId, unit |-> unit, feeType |-> feeType,
     period |-> period, tolerant |-> tolerant, byMonth |-> byMonth]

\* POST /api/webhooks/invoice-ninja: classification and
\* paymentsLedger.upsert({ where: { invoiceId }, create, update: {} }); an
\* upsert that throws is answered with reply.status(500)
\* an upsert whose update branch writes the payload's classification
UpsertOverwriting(inv, feeType) ==
    IF HasLedgerRow(inv.id)
    THEN [i \in DOMAIN ledger |->
            IF ledger[i].invoiceId = inv.id THEN [ledger[i] EXCEPT !.feeType = feeType] ELSE ledger[i]]
    ELSE Append(ledger, LedgerRow(inv, feeType))

UpsertLedger(inv, feeType) ==
    IF HasLedgerRow(inv.id) THEN ledger ELSE Append(ledger, LedgerRow(inv, feeType))

WebhookUpsert(p, inv) ==
    /\ Begin(p)
    /\ reqLeft' = reqLeft - 1
    /\ IF "ledgerWrite" \in faults
       THEN /\ Finish(p, "webhook", "internal_error")
            /\ UNCHANGED ledger
       ELSE \E feeType \in FeeTypesOf(inv.words) :
            /\ ledger' = UpsertLedger(inv, feeType)
            /\ IF feeType # "unknown" /\ inv.unit # NoUnit
               THEN /\ proc' = [proc EXCEPT ![p] = MatchLocals("webhook", inv.id, inv.unit, feeType, inv.period, FALSE, TRUE)]
                    /\ UNCHANGED resp
               ELSE Finish(p, "webhook", "received")
    /\ UNCHANGED <<users, bookings, nextBookingId, approvals, audit, now, outbox, faults, lastPollAt, paidInvoices>>

\* processInvoice of the poller: the findUnique that skips a recorded invoice
PollFind(p, inv) ==
    /\ Begin(p)
    /\ reqLeft' = reqLeft - 1
    /\ IF HasLedgerRow(inv.id)
       THEN Finish(p, "poll", "skipped")
       ELSE /\ proc' = [proc EXCEPT ![p] = [op |-> "poll", pc |-> "create", inv |-> inv]]
            /\ UNCHANGED resp
    /\ UNCHANGED <<users, bookings, nextBookingId, ledger, approvals, audit, now, outbox, faults, lastPollAt, paidInvoices>>

\* processInvoice: classification and paymentsLedger.create; a create that
\* throws (a unique violation, a failing write) is logged by the poll loop
PollCreate(p) ==
    /\ proc[p].op = "poll" /\ proc[p].pc = "create"
    /\ LET inv == proc[p].inv
       IN  IF ~LedgerInsertAllowed(inv.id) \/ "ledgerWrite" \in faults
           THEN /\ EndItem(p, "poll", "error")
                /\ UNCHANGED ledger
           ELSE \E feeType \in FeeTypesOf(inv.words) :
                /\ ledger' = Append(ledger, LedgerRow(inv, feeType))
                /\ IF feeType # "unknown" /\ inv.unit # NoUnit
                   THEN /\ proc' = [proc EXCEPT ![p] = Keep(p, MatchLocals("poll", inv.id, inv.unit, feeType, inv.period, TRUE, TRUE))]
                        /\ UNCHANGED resp
                   ELSE EndItem(p, "poll", "recorded")
    /\ UNCHANGED <<users, bookings, nextBookingId, approvals, audit, now, reqLeft, outbox, faults, lastPollAt, paidInvoices>>

\* runInvoiceNinjaPoll: fetchPaidInvoices answered with these invoices
PollStart(p, invoices) ==
    /\ Begin(p)
    /\ reqLeft' = reqLeft - 1
    /\ proc' = [proc EXCEPT ![p] =
            [op |-> "poll", pc |-> "find", inv |-> Head(invoices), rest |-> Tail(invoices)]]
    /\ lastPollAt' = now
    /\ UNCHANGED <<users, bookings, nextBookingId, ledger, approvals, audit, now, resp, outbox, faults, paidInvoices>>

\* processInvoice inside the loop: the findUnique that skips a recorded invoice
PollItemFind(p) ==
    /\ proc[p].op = "poll" /\ proc[p].pc = "find"
    /\ IF HasLedgerRow(proc[p].inv.id)
       THEN EndItem(p, "poll", "skipped")
       ELSE /\ proc' = [proc EXCEPT ![p].pc = "create"]
            /\ UNCHANGED resp
    /\ UNCHANGED <<users, bookings, nextBookingId, ledger, approvals, audit, now, reqLeft, outbox, faults, lastPollAt, paidInvoices>>

\* PATCH /api/admin/payments-ledger/:id/fee-type
SetFeeType(p, actor, id, feeType) ==
    /\ Begin(p)
    /\ users[actor] \in overrideRoles
    /\ reqLeft' = reqLeft - 1
    /\ IF id \notin DOMAIN ledger
       THEN /\ Finish(p, "setFeeType", "not_found")
            /\ UNCHANGED ledger
       ELSE /\ ledger' = [ledger EXCEPT ![id].feeType = feeType]
            /\ IF ledger[id].unit # NoUnit
               THEN /\ proc' = [proc EXCEPT ![p] =
                        MatchLocals("setFeeType", ledger[id].invoiceId, ledger[id].unit, feeType, ledger[id].billingPeriod, TRUE, FALSE)]
                    /\ UNCHANGED resp
               ELSE Finish(p, "setFeeType", "not_approved")
    /\ UNCHANGED <<users, bookings, nextBookingId, approvals, audit, now, outbox, faults, lastPollAt, paidInvoices>>

\* PATCH /api/admin/payments-ledger/:id/dismiss
Dismiss(actor, id, reason) ==
    /\ reqLeft > 0
    /\ users[actor] \in overrideRoles
    /\ reqLeft' = reqLeft - 1
    /\ IF id \notin DOMAIN ledger
       THEN /\ Respond("dismiss", "not_found")
            /\ UNCHANGED ledger
       ELSE /\ ledger' = [ledger EXCEPT ![id].dismissed = TRUE,
                                        ![id].dismissedReason = reason,
                                        ![id].dismissedAt = now]
            /\ Respond("dismiss", "ok")
    /\ UNCHANGED <<users, bookings, nextBookingId, approvals, audit, now, proc, outbox, faults, lastPollAt, paidInvoices>>

\* PATCH /api/admin/payments-ledger/:id/restore
Restore(actor, id) ==
    /\ reqLeft > 0
    /\ users[actor] \in overrideRoles
    /\ reqLeft' = reqLeft - 1
    /\ IF id \notin DOMAIN ledger
       THEN /\ Respond("restore", "not_found")
            /\ UNCHANGED ledger
       ELSE /\ ledger' = [ledger EXCEPT ![id].dismissed = FALSE,
                                        ![id].dismissedReason = "null",
                                        ![id].dismissedAt = NoTime]
            /\ Respond("restore", "ok")
    /\ UNCHANGED <<users, bookings, nextBookingId, approvals, audit, now, proc, outbox, faults, lastPollAt, paidInvoices>>

----------------------------------------------------------------------------
\* POST /api/admin/payments-ledger/retry-match

\* return { matched: matchedCount }
RetryDone(p, matched) ==
    /\ proc' = [proc EXCEPT ![p] = Idle]
    /\ resp' = [op |-> "retryMatch", res |-> "ok", matched |-> matched]

\* the findMany: unmatched, not dismissed, classified, with a unit
retryUnmatched ==
    {i \in DOMAIN ledger :
        /\ ~HasApproval(ledger[i].invoiceId)
        /\ ~ledger[i].dismissed
        /\ ledger[i].feeType # "unknown"
        /\ ledger[i].unit # NoUnit}

RetrySelect(p, actor) ==
    /\ Begin(p)
    /\ users[actor] \in overrideRoles
    /\ reqLeft' = reqLeft - 1
    /\ IF retryUnmatched = {}
       THEN RetryDone(p, 0)
       ELSE /\ proc' = [proc EXCEPT ![p] =
                [op |-> "retryMatch", pc |-> "find", matched |-> 0,
                 unmatched |-> {ledger[i] : i \in retryUnmatched}]]
            /\ UNCHANGED resp
    /\ UNCHANGED <<users, bookings, nextBookingId, ledger, approvals, audit, now, outbox, faults, lastPollAt, paidInvoices>>

retryBookings(payment) ==
    {b \in DOMAIN bookings :
        /\ bookings[b].unit \in unitVariants(payment.unit)
        /\ bookings[b].moveType = moveTypeFilter(payment.feeType)
        /\ bookings[b].status \in {"SUBMITTED", "PENDING", "APPROVED"}}

\* the loop's next iteration, or the response when no payment is left
RetryNext(p, rest, matched) ==
    IF rest = {}
    THEN RetryDone(p, matched)
    ELSE /\ proc' = [proc EXCEPT ![p] =
                [op |-> "retryMatch", pc |-> "find", matched |-> matched, unmatched |-> rest]]
         /\ UNCHANGED resp

\* one iteration: booking.findFirst and moveApproval.findFirst
RetryFind(p) ==
    /\ proc[p].op = "retryMatch" /\ proc[p].pc = "find"
    /\ \E payment \in proc[p].unmatched :
        LET rest == proc[p].unmatched \ {payment}
        IN  IF retryBookings(payment) = {} \/ HasApproval(payment.invoiceId)
            THEN RetryNext(p, rest, proc[p].matched)
            ELSE /\ \E b \in retryBookings(payment) :
                    proc' = [proc EXCEPT ![p] =
                        [op |-> "retryMatch", pc |-> "create", matched |-> proc[p].matched,
                         unmatched |-> rest,
                         payment |-> payment, booking |-> bookings[b]]]
                 /\ UNCHANGED resp
    /\ UNCHANGED <<users, bookings, nextBookingId, ledger, approvals, audit, now, reqLeft, outbox, faults, lastPollAt, paidInvoices>>

\* moveApproval.create, a statement of its own
RetryCreate(p) ==
    /\ proc[p].op = "retryMatch" /\ proc[p].pc = "create"
    /\ approvals' = Append(approvals,
            ApprovalRow(proc[p].booking.id, proc[p].payment, proc[p].payment.billingPeriod))
    /\ IF proc[p].booking.status # "APPROVED"
       THEN /\ proc' = [proc EXCEPT ![p].pc = "update"]
            /\ UNCHANGED resp
       ELSE RetryNext(p, proc[p].unmatched, proc[p].matched + 1)
    /\ UNCHANGED <<users, bookings, nextBookingId, ledger, audit, now, reqLeft, outbox, faults, lastPollAt, paidInvoices>>

\* booking.update, a statement of its own; it throws when the row is gone
\* and the handler ends with the error
RetryUpdate(p) ==
    /\ proc[p].op = "retryMatch" /\ proc[p].pc = "update"
    /\ LET id == proc[p].booking.id
       IN  IF id \notin DOMAIN bookings
           THEN /\ Finish(p, "retryMatch", "error")
                /\ UNCHANGED bookings
           ELSE /\ bookings' = [bookings EXCEPT ![id] = MatchUpdateRow(@)]
                /\ RetryNext(p, proc[p].unmatched, proc[p].matched + 1)
    /\ UNCHANGED <<users, nextBookingId, ledger, approvals, audit, now, reqLeft, outbox, faults, lastPollAt, paidInvoices>>

----------------------------------------------------------------------------
\* Inputs

\* Monday 10:00-11:00, unit 1105, move in, elevator
ReqA ==
    [unit |-> <<"1105">>, moveType |-> "MOVE_IN", moveMonth |-> "2025-12",
     start |-> At(0, 10, 0), end |-> At(0, 11, 0), elevatorRequired |-> TRUE]

\* Monday 11:15-11:45, inside the buffer of ReqA
ReqB ==
    [unit |-> <<"1204">>, moveType |-> "MOVE_OUT", moveMonth |-> "2025-12",
     start |-> At(0, 11, 15), end |-> At(0, 11, 45), elevatorRequired |-> TRUE]

\* Monday 13:00-14:00, clear of both
ReqC ==
    [unit |-> <<"T4", "1105">>, moveType |-> "MOVE_IN", moveMonth |-> "2025-12",
     start |-> At(0, 13, 0), end |-> At(0, 14, 0), elevatorRequired |-> TRUE]

Requests == {ReqA, ReqB, ReqC}

\* invoice inv1: "into unit 1105"
Inv1 ==
    [id |-> "inv1", client_id |-> "c1", words |-> {"into"}, unit |-> <<"1105">>, period |-> "2025-12"]

\* invoice inv1 delivered again, its line item edited: no keyword for layer 1,
\* no unit to extract, another date
Inv1Edited ==
    [id |-> "inv1", client_id |-> "c1", words |-> {"fee"}, unit |-> NoUnit, period |-> "2026-01"]

\* invoice inv2: "into T4-1105"
Inv2 ==
    [id |-> "inv2", client_id |-> "c2", words |-> {"into"}, unit |-> <<"T4", "1105">>, period |-> "2025-12"]

Invoices == {Inv1, Inv1Edited, Inv2}

DecideBody(status) ==
    [status |-> status, start |-> NoTime, end |-> NoTime, overrideConflict |-> FALSE]

\* status changes an admin sends, and a move of the booking to 13:00-14:00
DecideBodies ==
    {DecideBody(s) : s \in {"APPROVED", "REJECTED", "SUBMITTED"}}
        \cup {[status |-> NoStatus, start |-> At(0, 13, 0), end |-> At(0, 14, 0), overrideConflict |-> FALSE]}

BookingIds == 1..MaxRequests

----------------------------------------------------------------------------
\* Initial state: the seeded database, no request in flight

Init ==
    /\ users = [u \in UserIds |->
                    IF u = Concierge THEN "CONCIERGE"
                    ELSE IF u = Manager THEN "PROPERTY_MANAGER"
                    ELSE "NONE"]
    /\ bookings = <<>>
    /\ nextBookingId = 1
    /\ ledger = <<>>
    /\ approvals = <<>>
    /\ audit = <<>>
    /\ outbox = <<>>
    /\ faults = {}
    /\ lastPollAt = NoTime
    /\ paidInvoices = [i \in InvoiceIds |-> NoTime]
    /\ now = 0
    /\ proc = [p \in Procs |-> Idle]
    /\ resp = [op |-> "none", res |-> "none"]
    /\ reqLeft = MaxRequests

\* Concurrent submissions only
SubmitNext ==
    \/ \E p \in Procs, req \in Requests : SubmitCheck(p, req)
    \/ \E p \in Procs : SubmitCreate(p)

SpecSubmit == Init /\ [][SubmitNext]_vars

\* a.start - 60min < b.end and a.end + 60min > b.start
BufferedOverlap(a, b) ==
    a.start - BUFFER_MINUTES < b.end /\ a.end + BUFFER_MINUTES > b.start

\* two distinct active elevator bookings whose intervals buffered-overlap
ActiveOverlap ==
    \E a, b \in DOMAIN bookings :
        /\ a # b
        /\ bookings[a].elevatorRequired /\ bookings[b].elevatorRequired
        /\ bookings[a].status \in ActiveStatuses /\ bookings[b].status \in ActiveStatuses
        /\ BufferedOverlap(bookings[a], bookings[b])

\* C2: of two concurrent submit requests whose elevator-required intervals
\* buffered-overlap each other, at most one is persisted, under every
\* interleaving.
C2_AtMostOneOfTwoOverlappingSubmits ==
    ~ \E a, b \in DOMAIN bookings :
        /\ a # b
        /\ bookings[a].elevatorRequired /\ bookings[b].elevatorRequired
        /\ bookings[a].status = "SUBMITTED" /\ bookings[b].status = "SUBMITTED"
        /\ BufferedOverlap(bookings[a], bookings[b])

----------------------------------------------------------------------------
\* Admissions one at a time and without override, with sweeps, payment
\* deliveries and the clock in between

AdmissionOps == {"submit", "intake", "quickApprove", "decide"}

NoAdmissionInFlight == \A q \in Procs : proc[q].op \notin AdmissionOps

SeqNext ==
    \/ \E p \in Procs, req \in {ReqA, ReqB} : NoAdmissionInFlight /\ SubmitCheck(p, req)
    \/ \E p \in Procs : SubmitCreate(p)
    \/ \E p \in Procs, req \in {ReqB} : NoAdmissionInFlight /\ IntakeCheck(p, req)
    \/ \E p \in Procs : IntakeCreate(p)
    \/ \E p \in Procs, req \in {ReqB} : NoAdmissionInFlight /\ QuickCheck(p, Concierge, req)
    \/ \E p \in Procs : QuickCreate(p)
    \/ \E p \in Procs, b \in BookingIds, s \in {"APPROVED", "REJECTED"} :
            NoAdmissionInFlight /\ DecideCheck(p, Manager, b, DecideBody(s))
    \/ \E p \in Procs : DecideUpdate(p)
    \/ \E p \in Procs : SweepSelect(p)
    \/ \E p \in Procs : SweepUpdate(p)
    \/ \E p \in Procs : WebhookUpsert(p, Inv1)
    \/ \E p \in Procs : MatchRead(p)
    \/ \E p \in Procs : MatchTx(p)
    \/ Tick

SpecSeq == Init /\ [][SeqNext]_vars

\* C1: after admissions executed one at a time without override, interleaved
\* with auto-approval sweeps and payment matches, no two distinct active
\* elevator bookings have buffered-overlapping intervals.
C1_NoActiveOverlapAfterSerialAdmissions == ~ActiveOverlap

\* the bookings a step moves to APPROVED
NewlyApproved ==
    {b \in DOMAIN bookings \cap DOMAIN bookings' :
        bookings[b].status # "APPROVED" /\ bookings'[b].status = "APPROVED"}

\* C24: whichever path moves a booking to APPROVED (a decision, the sweep, a
\* payment match), the step sets the approval timestamp, attempts an approval
\* notification for the booking and writes an approval audit entry for it.
C24_EveryApprovalNotifiesAndAudits ==
    [][\A b \in NewlyApproved :
        /\ bookings'[b].approvedAt # NoTime
        /\ \E i \in DOMAIN outbox' :
            /\ i \notin DOMAIN outbox
            /\ outbox'[i].event = "APPROVED" /\ outbox'[i].bookingId = b
        /\ \E i \in DOMAIN audit' :
            /\ i \notin DOMAIN audit
            /\ audit'[i].bookingId = b
            /\ audit'[i].action \in {"BOOKING_APPROVED", "BOOKING_AUTO_APPROVED"}]_vars

----------------------------------------------------------------------------
\* The approval state machine: submissions, admin decisions, the sweep, the
\* payment matcher, user management and the clock, all concurrent

ApprovalNext ==
    \/ \E p \in Procs : SubmitCheck(p, ReqA)
    \/ \E p \in Procs : SubmitCreate(p)
    \/ \E p \in Procs, b \in BookingIds, body \in DecideBodies : DecideCheck(p, Manager, b, body)
    \/ \E p \in Procs : DecideUpdate(p)
    \/ \E p \in Procs : SweepSelect(p)
    \/ \E p \in Procs : SweepUpdate(p)
    \/ \E p \in Procs : WebhookUpsert(p, Inv1)
    \/ \E p \in Procs : MatchRead(p)
    \/ \E p \in Procs : MatchTx(p)
    \/ \E role \in Roles : UpdateUser(Manager, Concierge, role)
    \/ Tick

SpecApproval == Init /\ [][ApprovalNext]_vars

\* C3: APPROVED and REJECTED are terminal; the only status transitions are
\* from SUBMITTED or PENDING to APPROVED or REJECTED.
C3_ApprovedRejectedTerminal ==
    [][\A b \in DOMAIN bookings \cap DOMAIN bookings' :
            bookings'[b].status # bookings[b].status =>
                /\ bookings[b].status \in {"SUBMITTED", "PENDING"}
                /\ bookings'[b].status \in {"APPROVED", "REJECTED"}]_vars

\* C4: once a booking is REJECTED, no update of the auto-approval sweep sets
\* it to APPROVED, whenever the rejection came relative to the sweep's
\* selection.
C4_RejectionOverridesSweep ==
    [][\A p \in Procs :
            SweepUpdate(p) =>
                \A b \in DOMAIN bookings :
                    bookings[b].status = "REJECTED" => bookings'[b].status = "REJECTED"]_vars

\* C6: the matcher's update approves a booking only if the booking is
\* SUBMITTED or PENDING at the moment of the update; otherwise it changes no
\* status and creates no ApprovalLink.
C6_MatchGuardedAtUpdate ==
    [][\A p \in Procs :
            (/\ MatchTx(p)
             /\ proc[p].bookingId \in DOMAIN bookings
             /\ bookings[proc[p].bookingId].status \notin {"SUBMITTED", "PENDING"})
                => (bookings' = bookings /\ approvals' = approvals)]_vars

\* C10: a sweep takes up every SUBMITTED booking created more than 24 hours
\* before it, sets each to APPROVED with the system actor and the approval
\* time, and changes no other booking.
C10_SweepApprovesEveryStaleBooking ==
    [][\A p \in Procs :
            /\ SweepSelect(p) =>
                    IF StaleSubmitted = {} THEN proc'[p] = Idle
                    ELSE proc'[p].op = "sweep" /\ proc'[p].pending = StaleSubmitted
            /\ SweepUpdate(p) =>
                    \A b \in DOMAIN bookings :
                        bookings'[b] # bookings[b] =>
                            /\ b \in proc[p].pending
                            /\ bookings'[b].status = "APPROVED"
                            /\ bookings'[b].approvedById = proc[p].systemUser
                            /\ bookings'[b].approvedAt = now]_vars

----------------------------------------------------------------------------
\* Payment reconciliation: submissions, webhook deliveries, the poller, the
\* operator's ledger actions and retry-match, all concurrent

LedgerIds == 1..2

PayNext ==
    \/ \E p \in Procs : SubmitCheck(p, ReqA)
    \/ \E p \in Procs : SubmitCreate(p)
    \/ \E p \in Procs, inv \in Invoices : WebhookUpsert(p, inv)
    \/ \E p \in Procs, inv \in Invoices : PollFind(p, inv)
    \/ \E p \in Procs : PollCreate(p)
    \/ \E p \in Procs : MatchRead(p)
    \/ \E p \in Procs : MatchTx(p)
    \/ \E p \in Procs, id \in LedgerIds, feeType \in {"move_in", "move_out"} :
            SetFeeType(p, Manager, id, feeType)
    \/ \E id \in LedgerIds : Dismiss(Manager, id, "duplicate")
    \/ \E id \in LedgerIds : Restore(Manager, id)
    \/ \E p \in Procs : RetrySelect(p, Manager)
    \/ \E p \in Procs : RetryFind(p)
    \/ \E p \in Procs : RetryCreate(p)
    \/ \E p \in Procs : RetryUpdate(p)

SpecPay == Init /\ [][PayNext]_vars

\* C5: in every reachable state there is at most one ApprovalLink per
\* external invoice identifier.
C5_OneApprovalLinkPerInvoice ==
    \A i, j \in DOMAIN approvals :
        approvals[i].invoiceId = approvals[j].invoiceId => i = j

\* C7: no reachable state has an ApprovalLink whose booking is still
\* SUBMITTED or PENDING.
C7_LinkAndApprovalAtomic ==
    \A i \in DOMAIN approvals :
        approvals[i].moveRequestId \in DOMAIN bookings =>
            bookings[approvals[i].moveRequestId].status \notin {"SUBMITTED", "PENDING"}

LedgerCount(rows, invoiceId) ==
    Cardinality({i \in DOMAIN rows : rows[i].invoiceId = invoiceId})

C9_RedeliveryChangesNoField ==
    [][\A p \in Procs :
            (\/ \E inv \in Invoices : WebhookUpsert(p, inv)
             \/ \E inv \in Invoices : PollFind(p, inv)
             \/ PollCreate(p))
                => \A i \in DOMAIN ledger : ledger'[i] = ledger[i]]_vars

\* inv1 was recorded as a move-in payment for unit 1105, the operator set it
\* to move_out and dismissed it, and the edited inv1 then came in by webhook
C9_Witness ==
    /\ resp = [op |-> "webhook", res |-> "received"]
    /\ Len(ledger) = 1
    /\ ledger[1].unit = <<"1105">>
    /\ ledger[1].feeType = "move_out"
    /\ ledger[1].dismissed
    /\ ledger[1].billingPeriod = "2025-12"
    /\ \A p \in Procs : proc[p] = Idle

\* C21: while a payment record is dismissed no step creates an ApprovalLink
\* for its invoice; a restore clears the dismissed flag, its reason and its
\* timestamp, and leaves the record selectable by the matcher again.
C21_DismissedNeverMatched ==
    [][/\ \A i \in DOMAIN ledger :
            (ledger[i].dismissed /\ ~HasApproval(ledger[i].invoiceId))
                => ~(\E k \in DOMAIN approvals' : approvals'[k].invoiceId = ledger[i].invoiceId)
       /\ \A id \in LedgerIds :
            (Restore(Manager, id) /\ id \in DOMAIN ledger /\ ledger[id].dismissed) =>
                /\ ~ledger'[id].dismissed
                /\ ledger'[id].dismissedReason = "null"
                /\ ledger'[id].dismissedAt = NoTime]_vars

\* the ledger rows of an invoice
RecordsOf(invoiceId) == {i \in DOMAIN ledger : ledger[i].invoiceId = invoiceId}

\* the ApprovalLinks a step adds
NewLinks == {k \in DOMAIN approvals' : k \notin DOMAIN approvals}

\* Matching by fee type and unit: a move-in and a move-out booking of unit
\* 1105, an invoice that names both, one the classifiers may leave unknown,
\* one without a unit

\* Monday 13:00-14:00, unit 1105, move out
ReqOut ==
    [unit |-> <<"1105">>, moveType |-> "MOVE_OUT", moveMonth |-> "2025-12",
     start |-> At(0, 13, 0), end |-> At(0, 14, 0), elevatorRequired |-> TRUE]

\* invoice inv2: "fee, unit 1105"
InvVague ==
    [id |-> "inv2", client_id |-> "c1", words |-> {"fee"}, unit |-> <<"1105">>, period |-> "2025-12"]

\* invoice inv3: "into", no unit to extract
InvNoUnit ==
    [id |-> "inv3", client_id |-> "c1", words |-> {"into"}, unit |-> NoUnit, period |-> "2025-12"]

FilterInvoices == {Inv1, InvVague, InvNoUnit}

FilterNext ==
    \/ \E p \in Procs, req \in {ReqA, ReqOut} : SubmitCheck(p, req)
    \/ \E p \in Procs : SubmitCreate(p)
    \/ \E p \in Procs, inv \in FilterInvoices : WebhookUpsert(p, inv)
    \/ \E p \in Procs, inv \in FilterInvoices : PollFind(p, inv)
    \/ \E p \in Procs : PollCreate(p)
    \/ \E p \in Procs : MatchRead(p)
    \/ \E p \in Procs : MatchTx(p)
    \/ \E p \in Procs, id \in LedgerIds, feeType \in {"move_in", "move_out"} :
            SetFeeType(p, Manager, id, feeType)
    \/ \E p \in Procs : RetrySelect(p, Manager)
    \/ \E p \in Procs : RetryFind(p)
    \/ \E p \in Procs : RetryCreate(p)
    \/ \E p \in Procs : RetryUpdate(p)

SpecFilter == Init /\ [][FilterNext]_vars

\* move_in with MOVE_IN, move_out with MOVE_OUT
Corresponds(feeType, moveType) ==
    \/ feeType = "move_in" /\ moveType = "MOVE_IN"
    \/ feeType = "move_out" /\ moveType = "MOVE_OUT"

\* C22: an ApprovalLink is only created for a payment record whose fee type
\* is not unknown and whose unit is not null, and only to a booking whose
\* type corresponds to the record's fee type (move_in to MOVE_IN, move_out to
\* MOVE_OUT); a step of payment matching changes a booking's status only for
\* a booking linked to such a record.
C22_MatchOnlyClassifiedWithUnit ==
    [][/\ \A k \in NewLinks : \A i \in RecordsOf(approvals'[k].invoiceId) :
            /\ ledger[i].feeType # "unknown"
            /\ ledger[i].unit # NoUnit
            /\ approvals'[k].moveRequestId \in DOMAIN bookings =>
                    Corresponds(ledger[i].feeType,
                                bookings[approvals'[k].moveRequestId].moveType)
       /\ \A p \in Procs : (MatchTx(p) \/ RetryUpdate(p)) =>
            \A b \in DOMAIN bookings :
                bookings'[b].status # bookings[b].status =>
                    \E k \in DOMAIN approvals' :
                        /\ approvals'[k].moveRequestId = b
                        /\ \A i \in RecordsOf(approvals'[k].invoiceId) :
                                ledger[i].feeType # "unknown" /\ ledger[i].unit # NoUnit]_vars

----------------------------------------------------------------------------
\* retry-match beside submissions, webhook deliveries and admin decisions

RetryMatchNext ==
    \/ \E p \in Procs : SubmitCheck(p, ReqA)
    \/ \E p \in Procs : SubmitCreate(p)
    \/ \E p \in Procs, inv \in {Inv1, Inv2} : WebhookUpsert(p, inv)
    \/ \E p \in Procs : MatchRead(p)
    \/ \E p \in Procs : MatchTx(p)
    \/ \E p \in Procs, b \in BookingIds, body \in {DecideBody("APPROVED"), DecideBody("REJECTED")} :
            DecideCheck(p, Manager, b, body)
    \/ \E p \in Procs : DecideUpdate(p)
    \/ \E id \in LedgerIds : Dismiss(Manager, id, "duplicate")
    \/ \E p \in Procs : RetrySelect(p, Manager)
    \/ \E p \in Procs : RetryFind(p)
    \/ \E p \in Procs : RetryCreate(p)
    \/ \E p \in Procs : RetryUpdate(p)

SpecRetryMatch == Init /\ [][RetryMatchNext]_vars

\* matchedCount after a step of retry-match: the handler's local, or the
\* count in its response
CountAfter(p) == IF proc'[p] = Idle THEN resp'.matched ELSE proc'[p].matched

\* C23: retry-match takes up exactly the records that are unmatched, not
\* dismissed, classified and have a unit; an iteration that finds no booking
\* creates nothing and counts nothing; an iteration that finds one creates
\* one ApprovalLink and counts one; no step of it changes a booking that is
\* APPROVED, REJECTED or CANCELLED.
C23_RetryMatchLinksAndCounts ==
    [][\A p \in Procs :
        /\ RetrySelect(p, Manager) =>
                LET eligible == {i \in DOMAIN ledger :
                                    /\ ~HasApproval(ledger[i].invoiceId)
                                    /\ ~ledger[i].dismissed
                                    /\ ledger[i].feeType # "unknown"
                                    /\ ledger[i].unit # NoUnit}
                IN  IF eligible = {} THEN proc'[p] = Idle /\ resp'.matched = 0
                    ELSE proc'[p].unmatched = {ledger[i] : i \in eligible}
        /\ RetryFind(p) => approvals' = approvals /\ bookings' = bookings
        /\ (RetryFind(p) /\ proc'[p].pc # "create") => CountAfter(p) = proc[p].matched
        /\ RetryCreate(p) =>
                /\ Len(approvals') = Len(approvals) + 1
                /\ proc'[p].pc # "update" => CountAfter(p) = proc[p].matched + 1
        /\ (RetryUpdate(p) /\ resp'.res # "error") => CountAfter(p) = proc[p].matched + 1
        /\ (RetryCreate(p) \/ RetryUpdate(p)) =>
                \A b \in DOMAIN bookings :
                    bookings[b].status \in {"APPROVED", "REJECTED", "CANCELLED"}
                        => bookings'[b] = bookings[b]]_vars

----------------------------------------------------------------------------
\* PENDING bookings (e-mail intake) beside SUBMITTED ones, under the conflict
\* detector, the sweep and the payment matcher

PendingNext ==
    \/ \E p \in Procs, req \in {ReqA, ReqB} : IntakeCheck(p, req)
    \/ \E p \in Procs : IntakeCreate(p)
    \/ \E p \in Procs, req \in {ReqA, ReqB} : SubmitCheck(p, req)
    \/ \E p \in Procs : SubmitCreate(p)
    \/ \E p \in Procs : SweepSelect(p)
    \/ \E p \in Procs : SweepUpdate(p)
    \/ \E p \in Procs : WebhookUpsert(p, Inv1)
    \/ \E p \in Procs : MatchRead(p)
    \/ \E p \in Procs : MatchTx(p)
    \/ Tick

SpecPending == Init /\ [][PendingNext]_vars

\* what the sweep would take up were PENDING read as SUBMITTED
StalePreApproval ==
    {b \in DOMAIN bookings :
        /\ bookings[b].status \in {"SUBMITTED", "PENDING"}
        /\ bookings[b].createdAt < now - 24}

\* C25: a PENDING booking fares as a SUBMITTED one would: the conflict read
\* refuses a submission inside its buffer, the payment matcher goes on to
\* approve it, and the sweep takes it up once it is older than 24 hours.
C25_PendingAsSubmitted ==
    [][\A p \in Procs :
        /\ \A req \in {ReqA, ReqB} :
            (/\ SubmitCheck(p, req)
             /\ \E b \in DOMAIN bookings :
                    /\ bookings[b].status = "PENDING"
                    /\ bookings[b].elevatorRequired /\ req.elevatorRequired
                    /\ BufferedOverlap(req, bookings[b]))
                => (proc'[p] = Idle /\ resp'.res # "ok")
        /\ (/\ MatchRead(p)
            /\ unmatchedPayments(proc[p].unit, proc[p].feeType) # {}
            /\ \E b \in DOMAIN bookings :
                    /\ bookings[b].status = "PENDING"
                    /\ bookings[b].unit = proc[p].unit
                    /\ bookings[b].moveType = moveTypeFilter(proc[p].feeType)
                    /\ bookings[b].moveMonth = proc[p].period)
                => proc'[p].pc = "tx"
        /\ (SweepSelect(p) /\ Concierges # {} /\ StalePreApproval # {})
                => (proc'[p] # Idle /\ proc'[p].pending = StalePreApproval)]_vars

----------------------------------------------------------------------------
\* Deleting bookings that have audit history

DeleteNext ==
    \/ \E p \in Procs : SubmitCheck(p, ReqA)
    \/ \E p \in Procs : SubmitCreate(p)
    \/ \E p \in Procs : QuickCheck(p, Manager, ReqC)
    \/ \E p \in Procs : QuickCreate(p)
    \/ \E p \in Procs, b \in BookingIds, body \in {DecideBody("APPROVED"), DecideBody("REJECTED")} :
            DecideCheck(p, Manager, b, body)
    \/ \E p \in Procs : DecideUpdate(p)
    \/ \E actor \in {Concierge, Manager}, b \in BookingIds : DeleteBooking(actor, b)

SpecDelete == Init /\ [][DeleteNext]_vars

\* the audit entries that reference a booking
AuditOf(log, b) == {i \in DOMAIN log : log[i].bookingId = b}

\* C29: no audit entry ever references a booking that does not exist; the
\* step that removes a booking is the step that nullifies the booking
\* reference of every audit entry that referenced it, and it keeps each of
\* those entries, and every other entry, otherwise as it was.
C29_DeleteKeepsAuditHistory ==
    [][/\ \A i \in DOMAIN audit' :
            audit'[i].bookingId # NoBooking => audit'[i].bookingId \in DOMAIN bookings'
       /\ \A actor \in {Concierge, Manager}, b \in BookingIds :
            (DeleteBooking(actor, b) /\ b \in DOMAIN bookings) =>
                /\ b \notin DOMAIN bookings'
                /\ AuditOf(audit', b) = {}
                /\ Len(audit') = Len(audit) + 1
                /\ \A i \in DOMAIN audit :
                        audit'[i] = IF audit[i].bookingId = b
                                    THEN [audit[i] EXCEPT !.bookingId = NoBooking]
                                    ELSE audit[i]
       /\ \A b \in DOMAIN bookings :
            b \notin DOMAIN bookings' =>
                \E actor \in {Concierge, Manager} : DeleteBooking(actor, b)]_vars

\* a booking that an admin had approved was deleted: its approval entry is
\* still in the log, with no booking reference
C29_Witness ==
    /\ resp = [op |-> "delete", res |-> "ok"]
    /\ \E i \in DOMAIN audit : audit[i].action = "BOOKING_APPROVED" /\ audit[i].bookingId = NoBooking
    /\ bookings = <<>>

----------------------------------------------------------------------------
\* Deleting users who created and approved bookings

UsersNext ==
    \/ \E role \in {"CONCIERGE", "COUNCIL"} : CreateUser(Manager, Council, role)
    \/ \E p \in Procs : SubmitCheck(p, ReqA)
    \/ \E p \in Procs : SubmitCreate(p)
    \/ \E p \in Procs, actor \in {Manager, Council} : QuickCheck(p, actor, ReqC)
    \/ \E p \in Procs : QuickCreate(p)
    \/ \E p \in Procs, actor \in {Manager, Council}, userId \in UserIds : DeleteUserCheck(p, actor, userId)
    \/ \E p \in Procs : DeleteUserTx(p)

SpecUsers == Init /\ [][UsersNext]_vars

\* C30: a deletion never leaves the system without a CONCIERGE, and a refused
\* deletion changes nothing; the step that removes a user is the step that
\* gives every booking the user created and every audit entry the user wrote
\* to a CONCIERGE who remains, and clears the user as approver.
C30_LastConciergeKept ==
    [][/\ (Concierges # {}) => ({u \in UserIds : users'[u] = "CONCIERGE"} # {})
       /\ \A p \in Procs, actor \in {Manager, Council}, userId \in UserIds :
            (DeleteUserCheck(p, actor, userId) /\ proc'[p] = Idle) =>
                UNCHANGED <<users, bookings, audit>>
       /\ \A p \in Procs :
            (DeleteUserTx(p) /\ users' # users) =>
                LET userId == proc[p].userId
                    remaining == {u \in UserIds : users'[u] = "CONCIERGE"}
                IN  /\ users'[userId] = "NONE"
                    /\ \A b \in DOMAIN bookings :
                        /\ bookings[b].createdById = userId => bookings'[b].createdById \in remaining
                        /\ bookings[b].approvedById = userId => bookings'[b].approvedById = NoUser
                    /\ \A i \in DOMAIN audit :
                        audit[i].actorUserId = userId => audit'[i].actorUserId \in remaining
                    /\ \A b \in DOMAIN bookings' :
                        bookings'[b].createdById # userId /\ bookings'[b].approvedById # userId
                    /\ \A i \in DOMAIN audit' : audit'[i].actorUserId # userId]_vars

----------------------------------------------------------------------------
\* Submissions and decisions, one at a time, and one sweep at a time beside
\* them, while the mail transport comes and goes

NotifyNext ==
    \/ \E p \in Procs : NoAdmissionInFlight /\ SubmitCheck(p, ReqA)
    \/ \E p \in Procs : SubmitCreate(p)
    \/ \E p \in Procs, b \in BookingIds, body \in {DecideBody("APPROVED"), DecideBody("REJECTED")} :
            NoAdmissionInFlight /\ DecideCheck(p, Manager, b, body)
    \/ \E p \in Procs : DecideUpdate(p)
    \/ \E p \in Procs : (\A q \in Procs : proc[q].op # "sweep") /\ SweepSelect(p)
    \/ \E p \in Procs : SweepUpdate(p)
    \/ Tick
    \/ Fail("smtp")
    \/ Recover("smtp")

SpecNotify == Init /\ [][NotifyNext]_vars

\* the sends a step attempted and the transport failed
FailedSends == {i \in DOMAIN outbox' : i \notin DOMAIN outbox /\ ~outbox'[i].delivered}

\* C26: when the sends of a submit, a decide or a sweep iteration fail, the
\* booking still has the status the operation gave it and the operation
\* answers as it does when the sends succeed: submit and decide report
\* success, the sweep goes on to its next booking or ends normally.
C26_SendFailureKeepsTransition ==
    [][\A p \in Procs :
        /\ (SubmitCreate(p) /\ FailedSends # {}) =>
                /\ \A i \in FailedSends :
                        /\ outbox'[i].bookingId \in DOMAIN bookings'
                        /\ bookings'[outbox'[i].bookingId].status = "SUBMITTED"
                /\ resp' = [op |-> "submit", res |-> "ok"]
        /\ (DecideUpdate(p) /\ FailedSends # {}) =>
                /\ \A i \in FailedSends :
                        bookings'[outbox'[i].bookingId].status = proc[p].body.status
                /\ resp' = [op |-> "decide", res |-> "ok"]
        /\ (SweepUpdate(p) /\ FailedSends # {}) =>
                /\ \A i \in FailedSends :
                        /\ bookings'[outbox'[i].bookingId].status = "APPROVED"
                        /\ outbox'[i].bookingId \in proc[p].pending
                        /\ IF proc[p].pending = {outbox'[i].bookingId}
                           THEN proc'[p] = Idle /\ resp' = [op |-> "sweep", res |-> "ok"]
                           ELSE proc'[p] = [proc[p] EXCEPT !.pending = @ \ {outbox'[i].bookingId}]]_vars

\* an approval was decided while the transport was down: both sends failed,
\* the booking is APPROVED and the handler answered with success
C26_Witness ==
    /\ resp = [op |-> "decide", res |-> "ok"]
    /\ \E i \in DOMAIN outbox :
        /\ ~outbox[i].delivered
        /\ outbox[i].event = "APPROVED"
        /\ bookings[outbox[i].bookingId].status = "APPROVED"
        /\ bookings[outbox[i].bookingId].approvedById = Manager
    /\ \E i \in DOMAIN outbox : ~outbox[i].delivered /\ outbox[i].event = "SUBMITTED"

----------------------------------------------------------------------------
\* Webhook deliveries while writes to the ledger come and go

IngestNext ==
    \/ \E p \in Procs : SubmitCheck(p, ReqA)
    \/ \E p \in Procs : SubmitCreate(p)
    \/ \E p \in Procs, inv \in {Inv1, InvVague} : WebhookUpsert(p, inv)
    \/ \E p \in Procs : MatchRead(p)
    \/ \E p \in Procs : MatchTx(p)
    \/ \E b \in BookingIds : DeleteBooking(Manager, b)
    \/ Fail("ledgerWrite")
    \/ Recover("ledgerWrite")

SpecIngest == Init /\ [][IngestNext]_vars

\* the status code of the webhook's reply: 500 from the catch around the
\* upsert, 200 with { received: true } from every other return
WebhookStatus(res) == IF res = "internal_error" THEN 500 ELSE 200

\* C28: a delivery to the webhook always ends with a success status, and by
\* the time the classification is done the invoice has its ledger record,
\* with fee type unknown when neither layer could classify it.
C28_WebhookAlwaysAcks ==
    [][\A p \in Procs :
        /\ \A inv \in {Inv1, InvVague} :
                WebhookUpsert(p, inv) => \E i \in DOMAIN ledger' : ledger'[i].invoiceId = inv.id
        /\ (proc'[p] = Idle /\ proc[p] # Idle /\ resp'.op = "webhook") =>
                WebhookStatus(resp'.res) = 200
        /\ (FreeProc(p) /\ proc'[p] = Idle /\ resp' # resp /\ resp'.op = "webhook") =>
                WebhookStatus(resp'.res) = 200]_vars

----------------------------------------------------------------------------
\* The two background batches, one sweep and one poll at a time, beside
\* submissions and deletions; ledger writes fail and recover under the poll

PollBatch == <<Inv1, Inv2>>

PollRunning == \E q \in Procs : proc[q].op = "poll"

BatchNext ==
    \/ \E p \in Procs, req \in {ReqA, ReqC} : NoAdmissionInFlight /\ SubmitCheck(p, req)
    \/ \E p \in Procs : SubmitCreate(p)
    \/ \E p \in Procs : (\A q \in Procs : proc[q].op # "sweep") /\ SweepSelect(p)
    \/ \E p \in Procs : SweepUpdate(p)
    \/ Tick
    \/ \E b \in BookingIds : DeleteBooking(Manager, b)
    \/ \E p \in Procs : ~PollRunning /\ PollStart(p, PollBatch)
    \/ \E p \in Procs : PollItemFind(p)
    \/ \E p \in Procs : PollCreate(p)
    \/ \E p \in Procs : MatchRead(p)
    \/ \E p \in Procs : MatchTx(p)
    \/ PollRunning /\ Fail("ledgerWrite")
    \/ Recover("ledgerWrite")

SpecBatch == Init /\ [][BatchNext]_vars

\* the bookings one iteration of the sweep has dealt with
SweptBy(p) == proc[p].pending \ (IF proc'[p] = Idle THEN {} ELSE proc'[p].pending)

\* a step of the poll that ends the processing of its current invoice
ItemEnded(p) ==
    /\ proc[p].op = "poll"
    /\ proc'[p] # proc[p]
    /\ proc'[p].pc \in {"find", "idle"}

\* C27: an iteration of the sweep deals with exactly one booking of its
\* selection, approved if its row could be updated, and leaves every other
\* one to the iterations that follow; the sweep ends, normally, only with
\* the last. However an invoice of a poll ends (recorded, matched, skipped
\* or failed), the poll goes on with the next invoice of its batch, all
\* invoices after it still to come, and ends only after the last.
C27_BatchItemsIsolated ==
    [][\A p \in Procs :
        /\ SweepUpdate(p) =>
                /\ Cardinality(SweptBy(p)) = 1
                /\ \A b \in SweptBy(p) : b \in DOMAIN bookings => bookings'[b].status = "APPROVED"
                /\ proc'[p] = Idle => resp' = [op |-> "sweep", res |-> "ok"]
                /\ proc'[p] # Idle => proc'[p] = [proc[p] EXCEPT !.pending = @ \ SweptBy(p)]
        /\ ItemEnded(p) =>
                IF proc[p].rest = <<>> THEN proc'[p] = Idle
                ELSE proc'[p] = [op |-> "poll", pc |-> "find",
                                 inv |-> Head(proc[p].rest), rest |-> Tail(proc[p].rest)]
        /\ (proc[p].op = "poll" /\ ~ItemEnded(p)) =>
                /\ proc'[p].op = "poll"
                /\ proc'[p].rest = proc[p].rest]_vars

\* a poll is over whose first invoice could not be written and whose second
\* invoice is in the ledger
C27_Witness ==
    /\ \A p \in Procs : proc[p] = Idle
    /\ resp.op = "poll"
    /\ ~HasLedgerRow(Inv1.id)
    /\ HasLedgerRow(Inv2.id)

----------------------------------------------------------------------------
\* Admissions by staff of every role, with and without override

\* Monday 10:00 to Tuesday 11:00
ReqOvernight ==
    [unit |-> <<"1204">>, moveType |-> "MOVE_OUT", moveMonth |-> "2025-12",
     start |-> At(0, 10, 0), end |-> At(1, 11, 0), elevatorRequired |-> TRUE]

\* Monday 07:30-08:30
ReqEarly ==
    [unit |-> <<"1204">>, moveType |-> "MOVE_OUT", moveMonth |-> "2025-12",
     start |-> At(0, 7, 30), end |-> At(0, 8, 30), elevatorRequired |-> TRUE]

StaffRequests == {ReqB, ReqOvernight, ReqEarly}

\* an approval, and time edits sent with overrideConflict: onto ReqB's
\* interval, to an end on Tuesday, to a start at 07:30
StaffBodies ==
    {DecideBody("APPROVED"),
     [status |-> NoStatus, start |-> At(0, 11, 15), end |-> At(0, 11, 45), overrideConflict |-> TRUE],
     [status |-> NoStatus, start |-> NoTime, end |-> At(1, 11, 0), overrideConflict |-> TRUE],
     [status |-> NoStatus, start |-> At(0, 7, 30), end |-> NoTime, overrideConflict |-> TRUE]}

Staff == {Concierge, Manager, Council}

StaffNext ==
    \/ \E p \in Procs, req \in {ReqA, ReqB} : SubmitCheck(p, req)
    \/ \E p \in Procs : SubmitCreate(p)
    \/ \E p \in Procs, actor \in Staff, req \in StaffRequests : QuickCheck(p, actor, req)
    \/ \E p \in Procs : QuickCreate(p)
    \/ \E p \in Procs, actor \in Staff, b \in BookingIds, body \in StaffBodies :
            DecideCheck(p, actor, b, body)
    \/ \E p \in Procs : DecideUpdate(p)
    \/ CreateUser(Manager, Council, "COUNCIL")

SpecStaff == Init /\ [][StaffNext]_vars

\* the active elevator rows other than `id` that buffered-overlap row
OverlappedBy(rows, row, id) ==
    {b \in DOMAIN rows :
        /\ b # id
        /\ rows[b].elevatorRequired /\ rows[b].status \in ActiveStatuses
        /\ BufferedOverlap(row, rows[b])}

\* C11: a quick-approve or decide request without elevated role is rejected
\* when its elevator interval buffered-overlaps an active elevator booking,
\* and no step of such a request persists or re-times a booking onto an
\* active elevator booking.
C11_OverrideOnlyForElevatedRoles ==
    [][\A p \in Procs :
        /\ \A actor \in Staff, req \in StaffRequests :
                (/\ QuickCheck(p, actor, req)
                 /\ users[actor] = "CONCIERGE"
                 /\ req.elevatorRequired
                 /\ OverlappedBy(bookings, req, NoBooking) # {})
                    => (proc'[p] = Idle /\ resp'.res # "ok")
        /\ (/\ QuickCreate(p)
            /\ users[proc[p].user] = "CONCIERGE"
            /\ proc[p].req.elevatorRequired)
                => OverlappedBy(bookings', bookings'[nextBookingId], nextBookingId) = {}
        /\ (/\ DecideUpdate(p)
            /\ users[proc[p].user] = "CONCIERGE"
            /\ proc[p].existing.id \in DOMAIN bookings
            /\ bookings'[proc[p].existing.id].elevatorRequired
            /\ bookings'[proc[p].existing.id].status \in ActiveStatuses)
                => OverlappedBy(bookings', bookings'[proc[p].existing.id], proc[p].existing.id) = {}]_vars

HasOverrideAudit(log, id) ==
    \E i \in DOMAIN log : log[i].action = "CONFLICT_OVERRIDE" /\ log[i].bookingId = id

\* C12: every step that persists a booking over a conflict by override
\* (quick-approve by an elevated actor, decide with override) leaves an
\* override audit entry for that booking, distinct from the approval entry.
C12_OverrideIsAudited ==
    [][\A p \in Procs :
        /\ (/\ QuickCreate(p)
            /\ proc[p].allowOverride
            /\ proc[p].req.elevatorRequired
            /\ OverlappedBy(bookings, proc[p].req, NoBooking) # {})
                => HasOverrideAudit(audit', nextBookingId)
        /\ (/\ DecideUpdate(p)
            /\ proc[p].allowOverride
            /\ proc[p].existing.id \in DOMAIN bookings
            /\ bookings'[proc[p].existing.id].elevatorRequired
            /\ OverlappedBy(bookings', bookings'[proc[p].existing.id], proc[p].existing.id) # {})
                => HasOverrideAudit(audit', proc[p].existing.id)]_vars

\* C13: every persisted booking has end > start, with start and end on the
\* same calendar day.
C13_SameDayInterval ==
    \A b \in DOMAIN bookings :
        /\ bookings[b].end > bookings[b].start
        /\ DayOf(bookings[b].start) = DayOf(bookings[b].end)

\* Admissions at the edges of the day, by a concierge and a manager

\* Monday 16:00-17:30
ReqLate ==
    [unit |-> <<"1204">>, moveType |-> "MOVE_OUT", moveMonth |-> "2025-12",
     start |-> At(0, 16, 0), end |-> At(0, 17, 30), elevatorRequired |-> TRUE]

HoursRequests == {ReqA, ReqEarly, ReqLate}

\* an approval, and time edits sent with overrideConflict: to a start at
\* 07:30, to an end at 17:30
HoursBodies ==
    {DecideBody("APPROVED"),
     [status |-> NoStatus, start |-> At(0, 7, 30), end |-> NoTime, overrideConflict |-> TRUE],
     [status |-> NoStatus, start |-> NoTime, end |-> At(0, 17, 30), overrideConflict |-> TRUE]}

HoursStaff == {Concierge, Manager}

HoursNext ==
    \/ \E p \in Procs, req \in HoursRequests : SubmitCheck(p, req)
    \/ \E p \in Procs : SubmitCreate(p)
    \/ \E p \in Procs, actor \in HoursStaff, req \in HoursRequests : QuickCheck(p, actor, req)
    \/ \E p \in Procs : QuickCreate(p)
    \/ \E p \in Procs, actor \in HoursStaff, b \in BookingIds, body \in HoursBodies :
            DecideCheck(p, actor, b, body)
    \/ \E p \in Procs : DecideUpdate(p)

SpecHours == Init /\ [][HoursNext]_vars

\* start before 08:00 or end after 17:00, by the clock
OutsideClockBounds(start, end) ==
    MinuteOfDay(start) < 8 * 60 \/ MinuteOfDay(end) > 17 * 60

----------------------------------------------------------------------------
\* The conflict detector applied to a grid of existing rows and candidates

MaxExisting == 2

\* Monday's marks: gaps of 0, 30, 60, 90 minutes and more between intervals
ConflictTimes ==
    {At(0, 10, 0), At(0, 11, 0), At(0, 11, 30), At(0, 12, 0), At(0, 12, 30), At(0, 13, 30)}

\* rows as the findMany of assertNoConflict selects them
ExistingRows ==
    {r \in {[start |-> s, end |-> e, elevatorRequired |-> el] :
                s \in ConflictTimes, e \in ConflictTimes, el \in BOOLEAN} :
        r.start < r.end}

\* candidates as the handlers build them from a booking; the booking's
\* loading-bay flag rides along
ConflictCandidates ==
    {[id |-> NoBooking, start |-> s, end |-> e, elevatorRequired |-> el,
      loadingBayRequired |-> lb] :
        s \in ConflictTimes, e \in ConflictTimes, el \in BOOLEAN, lb \in BOOLEAN}

RECURSIVE SetsUpTo(_)
SetsUpTo(n) ==
    IF n = 0 THEN {{}}
    ELSE LET smaller == SetsUpTo(n - 1)
         IN  smaller \cup {S \cup {r} : S \in smaller, r \in ExistingRows}

ExistingSets == SetsUpTo(MaxExisting)

InitConflict ==
    /\ users = [u \in UserIds |->
                    IF u = Concierge THEN "CONCIERGE"
                    ELSE IF u = Manager THEN "PROPERTY_MANAGER"
                    ELSE "NONE"]
    /\ bookings = <<>>
    /\ nextBookingId = 1
    /\ ledger = <<>>
    /\ approvals = <<>>
    /\ audit = <<>>
    /\ outbox = <<>>
    /\ faults = {}
    /\ lastPollAt = NoTime
    /\ paidInvoices = [i \in InvoiceIds |-> NoTime]
    /\ now = 0
    /\ \E existing \in ExistingSets, candidate \in ConflictCandidates :
        /\ candidate.start < candidate.end
        /\ proc = [p \in Procs |->
                    IF p = 1
                    THEN [op |-> "hasElevatorConflict", pc |-> "call",
                          existing |-> existing, candidate |-> candidate]
                    ELSE Idle]
    /\ resp = [op |-> "none", res |-> "none"]
    /\ reqLeft = MaxRequests

ConflictCall(p) ==
    /\ proc[p].op = "hasElevatorConflict"
    /\ proc[p].pc = "call"
    /\ resp' = [op |-> "hasElevatorConflict",
                res |-> hasElevatorConflict(proc[p].existing, proc[p].candidate),
                existing |-> proc[p].existing,
                candidate |-> proc[p].candidate]
    /\ proc' = [proc EXCEPT ![p] = Idle]
    /\ UNCHANGED <<users, bookings, nextBookingId, ledger, approvals, audit, now, reqLeft, outbox, faults, lastPollAt, paidInvoices>>

ConflictNext == \E p \in Procs : ConflictCall(p)

SpecConflict == InitConflict /\ [][ConflictNext]_vars

ConflictAnswered == resp.op = "hasElevatorConflict"

\* the gap between two intervals that do not overlap, negative when they do
Gap(a, b) == IF a.start >= b.end THEN a.start - b.end ELSE b.start - a.end

Mon(h, m) == At(0, h, m)

\* C14: hasElevatorConflict answers true exactly when the candidate requires
\* the elevator and some existing elevator row has candidateStart - 60min <
\* existingEnd and candidateEnd + 60min > existingStart; that is, when the gap
\* to some elevator row is under 60 minutes.  10:00-11:00 conflicts with
\* 11:30-12:00 and does not conflict with 12:30-13:30.
C14_ConflictExactlyWithinBuffer ==
    ConflictAnswered =>
        /\ resp.res =
            (/\ resp.candidate.elevatorRequired
             /\ \E b \in resp.existing :
                    /\ b.elevatorRequired
                    /\ resp.candidate.start - 60 < b.end
                    /\ resp.candidate.end + 60 > b.start)
        /\ resp.res =
            (/\ resp.candidate.elevatorRequired
             /\ \E b \in resp.existing :
                    b.elevatorRequired /\ Gap(resp.candidate, b) < 60)
        /\ (/\ resp.candidate.elevatorRequired
            /\ resp.candidate.start = Mon(11, 30) /\ resp.candidate.end = Mon(12, 0)
            /\ [start |-> Mon(10, 0), end |-> Mon(11, 0), elevatorRequired |-> TRUE]
                    \in resp.existing)
                => resp.res = TRUE
        /\ (/\ resp.candidate.start = Mon(12, 30) /\ resp.candidate.end = Mon(13, 30)
            /\ resp.existing =
                    {[start |-> Mon(10, 0), end |-> Mon(11, 0), elevatorRequired |-> TRUE]})
                => resp.res = FALSE

\* 12:00-12:30 was tested against the elevator row 10:00-11:00, a gap of
\* exactly 60 minutes, and did not conflict
C14_Witness ==
    /\ ConflictAnswered
    /\ resp.candidate.elevatorRequired
    /\ resp.candidate.start = Mon(12, 0) /\ resp.candidate.end = Mon(12, 30)
    /\ resp.existing = {[start |-> Mon(10, 0), end |-> Mon(11, 0), elevatorRequired |-> TRUE]}
    /\ resp.res = FALSE

ElevatorRowsOf(existing) == {b \in existing : b.elevatorRequired}

\* C15: a candidate that does not require the elevator never conflicts,
\* whatever the existing rows; an existing row that does not require the
\* elevator never causes a conflict (the answer is the answer for the
\* elevator rows alone, and is false when there are none); the loading-bay
\* flag of the booking plays no part in the answer.
C15_NonElevatorNeverConflicts ==
    ConflictAnswered =>
        /\ ~resp.candidate.elevatorRequired => resp.res = FALSE
        /\ ElevatorRowsOf(resp.existing) = {} => resp.res = FALSE
        /\ resp.res = hasElevatorConflict(ElevatorRowsOf(resp.existing), resp.candidate)
        /\ resp.res = hasElevatorConflict(resp.existing,
                        [resp.candidate EXCEPT !.loadingBayRequired = ~@])

\* an elevator candidate that needs the loading bay was tested against a
\* non-elevator row of the very same interval and did not conflict
C15_Witness ==
    /\ ConflictAnswered
    /\ resp.candidate.elevatorRequired
    /\ resp.candidate.loadingBayRequired
    /\ resp.existing = {[start |-> resp.candidate.start, end |-> resp.candidate.end,
                         elevatorRequired |-> FALSE]}
    /\ resp.res = FALSE

\* a candidate taken as an existing row, and a row taken as a candidate
AsRow(candidate) ==
    [start |-> candidate.start, end |-> candidate.end, elevatorRequired |-> candidate.elevatorRequired]

AsCandidate(b, loadingBayRequired) ==
    [start |-> b.start, end |-> b.end, elevatorRequired |-> b.elevatorRequired,
     loadingBayRequired |-> loadingBayRequired]

\* C34: for an elevator candidate a and an elevator row b, the answer for a
\* against b is the answer for b against a; and a row that the conflict test
\* reports lies inside the window the database query selects by.
C34_ConflictSymmetric ==
    ConflictAnswered =>
        /\ \A b \in resp.existing :
            (resp.candidate.elevatorRequired /\ b.elevatorRequired) =>
                /\ hasElevatorConflict({b}, resp.candidate)
                        = hasElevatorConflict({AsRow(resp.candidate)},
                                              AsCandidate(b, resp.candidate.loadingBayRequired))
                /\ resp.existing = {b} =>
                        resp.res = hasElevatorConflict({AsRow(resp.candidate)},
                                                       AsCandidate(b, resp.candidate.loadingBayRequired))
        /\ \A b \in resp.existing :
            hasElevatorConflict({b}, resp.candidate) => withinWindow(b, resp.candidate)

\* 11:30-12:00 was tested against the single elevator row 10:00-11:00 and
\* conflicted, half an hour after it
C34_Witness ==
    /\ ConflictAnswered
    /\ resp.existing = {[start |-> Mon(10, 0), end |-> Mon(11, 0), elevatorRequired |-> TRUE]}
    /\ resp.candidate.start = Mon(11, 30) /\ resp.candidate.end = Mon(12, 0)
    /\ resp.candidate.elevatorRequired
    /\ resp.res = TRUE

----------------------------------------------------------------------------
\* The time-of-day validator applied to a grid of intervals and types

ValidateSteps == 40

\* Monday 2025-12-22, Thursday 2025-12-25 (Christmas Day), Saturday 2025-12-27
ValidateDays == {0, 3, 5}

\* quarter-hour marks of those days from 07:30 on
ValidateTimes == {At(d, 7, 30) + 15 * k : d \in ValidateDays, k \in 0..ValidateSteps}

MoveType == {"MOVE_IN", "MOVE_OUT", "DELIVERY", "RENO"}

InitValidate ==
    /\ users = [u \in UserIds |->
                    IF u = Concierge THEN "CONCIERGE"
                    ELSE IF u = Manager THEN "PROPERTY_MANAGER"
                    ELSE "NONE"]
    /\ bookings = <<>>
    /\ nextBookingId = 1
    /\ ledger = <<>>
    /\ approvals = <<>>
    /\ audit = <<>>
    /\ outbox = <<>>
    /\ faults = {}
    /\ lastPollAt = NoTime
    /\ paidInvoices = [i \in InvoiceIds |-> NoTime]
    /\ now = 0
    /\ \E start \in ValidateTimes, end \in ValidateTimes, moveType \in MoveType :
        proc = [p \in Procs |->
                    IF p = 1
                    THEN [op |-> "validateMoveTime", pc |-> "call",
                          start |-> start, end |-> end, moveType |-> moveType]
                    ELSE Idle]
    /\ resp = [op |-> "none", res |-> "none"]
    /\ reqLeft = MaxRequests

ValidateCall(p) ==
    /\ proc[p].op = "validateMoveTime"
    /\ proc[p].pc = "call"
    /\ resp' = [op |-> "validateMoveTime",
                res |-> validateMoveTime(proc[p].start, proc[p].end, proc[p].moveType),
                start |-> proc[p].start,
                end |-> proc[p].end,
                moveType |-> proc[p].moveType]
    /\ proc' = [proc EXCEPT ![p] = Idle]
    /\ UNCHANGED <<users, bookings, nextBookingId, ledger, approvals, audit, now, reqLeft, outbox, faults, lastPollAt, paidInvoices>>

ValidateNext == \E p \in Procs : ValidateCall(p)

SpecValidate == InitValidate /\ [][ValidateNext]_vars

ValidateAnswered == resp.op = "validateMoveTime"

\* the answered interval runs forward within one calendar day
SameDayInterval == resp.start < resp.end /\ DayOf(resp.start) = DayOf(resp.end)

\* 2025-12-25 and 2025-12-26, as days of the modelled week
OnHoliday == DayOf(resp.start) \in {3, 4}

OnWeekend == DayOfWeek(resp.start) \in {0, 6}

\* the answered interval lies within from..to (clock hours) of its day
Within(from, to) ==
    /\ MinuteOfDay(resp.start) >= from * 60
    /\ MinuteOfDay(resp.end) <= to * 60

\* C17: for MOVE_IN and MOVE_OUT on a day that is no holiday,
\* validateMoveTime accepts a same-day interval exactly when it lies within
\* one window: 10:00-13:00 or 13:00-16:00 on a weekday, 08:00-11:00,
\* 11:00-14:00 or 14:00-17:00 on a weekend; weekday 12:30-14:30 is rejected.
C17_MoveAcceptedExactlyInOneWindow ==
    (/\ ValidateAnswered
     /\ resp.moveType \in {"MOVE_IN", "MOVE_OUT"}
     /\ SameDayInterval
     /\ ~OnHoliday) =>
        /\ (resp.res = "ok") =
                IF OnWeekend
                THEN Within(8, 11) \/ Within(11, 14) \/ Within(14, 17)
                ELSE Within(10, 13) \/ Within(13, 16)
        /\ (resp.start = At(0, 12, 30) /\ resp.end = At(0, 14, 30)) => resp.res # "ok"

\* a MOVE_IN for Monday 12:30-14:30 was refused for its hours
C17_Witness ==
    /\ ValidateAnswered
    /\ resp.moveType = "MOVE_IN"
    /\ resp.start = At(0, 12, 30) /\ resp.end = At(0, 14, 30)
    /\ resp.res = "outside_hours"

\* C18: for DELIVERY (block of 30 minutes) and RENO (block of 60 minutes) on
\* a day that is no holiday, validateMoveTime accepts a same-day interval
\* exactly when it lasts one block and lies within 10:00-16:00 on a weekday,
\* 08:00-17:00 on a weekend; a DELIVERY of 45 minutes is rejected for its
\* duration.
C18_BlockAcceptedExactlyInRange ==
    (/\ ValidateAnswered
     /\ resp.moveType \in {"DELIVERY", "RENO"}
     /\ SameDayInterval
     /\ ~OnHoliday) =>
        /\ (resp.res = "ok") =
                (/\ resp.end - resp.start = (IF resp.moveType = "DELIVERY" THEN 30 ELSE 60)
                 /\ IF OnWeekend THEN Within(8, 17) ELSE Within(10, 16))
        /\ (resp.moveType = "DELIVERY" /\ resp.end - resp.start = 45)
                => resp.res = "wrong_duration"

\* a DELIVERY for Monday 10:00-10:45 was refused for its duration
C18_Witness ==
    /\ ValidateAnswered
    /\ resp.moveType = "DELIVERY"
    /\ resp.start = At(0, 10, 0) /\ resp.end = At(0, 10, 45)
    /\ resp.res = "wrong_duration"

\* C19: for every interval on a date of the holiday calendar,
\* validateMoveTime answers with the holiday rejection, whatever the booking
\* type and whatever the time of day.
C19_HolidayAlwaysRejected ==
    (ValidateAnswered /\ SameDayInterval /\ OnHoliday) => resp.res = "holiday"

\* a RENO of one hour within Thursday 2025-12-25's 10:00-16:00 was refused as
\* on a holiday
C19_Witness ==
    /\ ValidateAnswered
    /\ resp.moveType = "RENO"
    /\ resp.start = At(3, 11, 0) /\ resp.end = At(3, 12, 0)
    /\ resp.res = "holiday"

----------------------------------------------------------------------------
\* Unit matching: bookings for "1105" and "T4-1105", payments for "1105" and
\* "T4-1105", on the webhook, poll, set-fee-type and retry-match paths

MatchNext ==
    \/ \E p \in Procs, req \in {ReqA, ReqC} : SubmitCheck(p, req)
    \/ \E p \in Procs : SubmitCreate(p)
    \/ \E p \in Procs, inv \in {Inv1, Inv2} : WebhookUpsert(p, inv)
    \/ \E p \in Procs, inv \in {Inv1, Inv2} : PollFind(p, inv)
    \/ \E p \in Procs : PollCreate(p)
    \/ \E p \in Procs : MatchRead(p)
    \/ \E p \in Procs : MatchTx(p)
    \/ \E p \in Procs, id \in LedgerIds, feeType \in {"move_in", "move_out"} :
            SetFeeType(p, Manager, id, feeType)
    \/ \E p \in Procs : RetrySelect(p, Manager)
    \/ \E p \in Procs : RetryFind(p)
    \/ \E p \in Procs : RetryCreate(p)
    \/ \E p \in Procs : RetryUpdate(p)

SpecMatch == Init /\ [][MatchNext]_vars

\* equal, or equal once a building prefix is taken off either unit
SameUnit(u, v) == u = v \/ EndsWithDash(u, v) \/ EndsWithDash(v, u)

\* SUBMITTED bookings of the payment's move type whose unit is the payment's
\* up to a building prefix (and, where the path asks for it, whose move date
\* lies in the billing month)
SubmittedFor(unit, feeType, period, byMonth) ==
    {b \in DOMAIN bookings :
        /\ bookings[b].status = "SUBMITTED"
        /\ bookings[b].moveType = moveTypeFilter(feeType)
        /\ SameUnit(bookings[b].unit, unit)
        /\ (byMonth => bookings[b].moveMonth = period)}

\* C20: a payment that is classified, not dismissed and not yet linked is
\* matched to a SUBMITTED booking of its move type whose unit equals the
\* payment's unit up to a building prefix on either side ("1105" with "1105"
\* and with "T4-1105"), on the webhook, poll and set-fee-type paths and in
\* retry-match.
C20_PrefixTolerantMatch ==
    [][\A p \in Procs :
        /\ (/\ MatchRead(p)
            /\ proc[p].feeType # "unknown"
            /\ unmatchedPayments(proc[p].unit, proc[p].feeType) # {}
            /\ SubmittedFor(proc[p].unit, proc[p].feeType, proc[p].period, proc[p].byMonth) # {})
                => proc'[p].pc = "tx"
        /\ (/\ RetryFind(p)
            /\ Cardinality(proc[p].unmatched) = 1
            /\ \A payment \in proc[p].unmatched :
                    /\ ~HasApproval(payment.invoiceId)
                    /\ SubmittedFor(payment.unit, payment.feeType, payment.billingPeriod, FALSE) # {})
                => proc'[p].pc = "create"]_vars

----------------------------------------------------------------------------
\* Admissions and decisions, one at a time, that are refused

\* Monday 14:00-14:30, a delivery, clear of ReqA
ReqDelivery ==
    [unit |-> <<"1204">>, moveType |-> "DELIVERY", moveMonth |-> "2025-12",
     start |-> At(0, 14, 0), end |-> At(0, 14, 30), elevatorRequired |-> TRUE]

\* an approval; an end moved to 15:00; a move to 11:30-12:00, inside the
\* buffer of ReqA; none with overrideConflict
RejectBodies ==
    {DecideBody("APPROVED"),
     [status |-> NoStatus, start |-> NoTime, end |-> At(0, 15, 0), overrideConflict |-> FALSE],
     [status |-> NoStatus, start |-> At(0, 11, 30), end |-> At(0, 12, 0), overrideConflict |-> FALSE]}

RejectNext ==
    \/ \E p \in Procs, req \in {ReqA, ReqB, ReqDelivery} :
            NoAdmissionInFlight /\ SubmitCheck(p, req)
    \/ \E p \in Procs : SubmitCreate(p)
    \/ \E p \in Procs, actor \in {Concierge, Manager}, req \in {ReqB, ReqEarly} :
            NoAdmissionInFlight /\ QuickCheck(p, actor, req)
    \/ \E p \in Procs : QuickCreate(p)
    \/ \E p \in Procs, actor \in {Concierge, Manager}, b \in BookingIds, body \in RejectBodies :
            NoAdmissionInFlight /\ DecideCheck(p, actor, b, body)
    \/ \E p \in Procs : DecideUpdate(p)

SpecReject == Init /\ [][RejectNext]_vars

\* a submit, quick-approve or decide request that was answered at once with
\* something other than success
RefusedAtOnce ==
    /\ reqLeft' < reqLeft
    /\ proc' = proc
    /\ resp'.op \in {"submit", "quickApprove", "decide"}
    /\ resp'.res # "ok"

\* C31: a submit, quick-approve or decide that is refused leaves bookings,
\* audit log and notifications as they were, and starts no write; a decide
\* that sends times without override is refused with the Slot Policy's
\* verdict on the new interval for the booking's own type whenever that
\* verdict is a rejection.
C31_RefusalChangesNothing ==
    [][/\ RefusedAtOnce => UNCHANGED <<bookings, nextBookingId, audit, outbox, ledger, approvals>>
       /\ \A p \in Procs :
            (proc[p] = Idle /\ proc'[p] # Idle /\ proc'[p].op \in {"submit", "quickApprove", "decide"}) =>
                UNCHANGED <<resp, bookings, audit, outbox>>
       /\ \A p \in Procs, actor \in {Concierge, Manager}, b \in DOMAIN bookings, body \in RejectBodies :
            LET allowOverride == users[actor] \in overrideRoles /\ body.overrideConflict
                newStart == IF body.start # NoTime THEN body.start ELSE bookings[b].start
                newEnd == IF body.end # NoTime THEN body.end ELSE bookings[b].end
                verdict == validateMoveTime(newStart, newEnd, bookings[b].moveType)
            IN  (/\ DecideCheck(p, actor, b, body)
                 /\ body.start # NoTime \/ body.end # NoTime
                 /\ ~allowOverride
                 /\ verdict # "ok") =>
                    /\ resp' = [op |-> "decide", res |-> verdict]
                    /\ RefusedAtOnce]_vars

\* a delivery's end was moved to 15:00: refused for its duration, the
\* booking as submitted, nothing logged
C31_Witness ==
    /\ resp = [op |-> "decide", res |-> "wrong_duration"]
    /\ \E b \in DOMAIN bookings :
        /\ bookings[b].moveType = "DELIVERY"
        /\ bookings[b].end = At(0, 14, 30)
        /\ bookings[b].status = "SUBMITTED"
    /\ audit = <<>>
    /\ \A i \in DOMAIN outbox : outbox[i].event = "SUBMITTED"

----------------------------------------------------------------------------
\* Status decisions on bookings that overlap others and on bookings that
\* do not

\* Monday 10:30-11:30 without the elevator, across ReqA
ReqStairs ==
    [unit |-> <<"1204">>, moveType |-> "MOVE_OUT", moveMonth |-> "2025-12",
     start |-> At(0, 10, 30), end |-> At(0, 11, 30), elevatorRequired |-> FALSE]

\* every status, without times and without overrideConflict
StatusBodies == {DecideBody(s) : s \in BookingStatus}

RecheckNext ==
    \/ \E p \in Procs, req \in {ReqA, ReqStairs} : NoAdmissionInFlight /\ SubmitCheck(p, req)
    \/ \E p \in Procs : SubmitCreate(p)
    \/ \E p \in Procs, req \in {ReqB, ReqC} : NoAdmissionInFlight /\ QuickCheck(p, Manager, req)
    \/ \E p \in Procs : QuickCreate(p)
    \/ \E p \in Procs, actor \in {Concierge, Manager}, b \in BookingIds, body \in StatusBodies :
            NoAdmissionInFlight /\ DecideCheck(p, actor, b, body)
    \/ \E p \in Procs : DecideUpdate(p)

SpecRecheck == Init /\ [][RecheckNext]_vars

\* C32: a decide that sends a status and no times, without override, goes
\* on to its update when no other active elevator booking buffered-overlaps
\* the booking, and is refused with a conflict error, whatever the status
\* sent, when the booking needs the elevator and another active elevator
\* booking buffered-overlaps it.
C32_DecideRechecksConflict ==
    [][\A p \in Procs, actor \in {Concierge, Manager}, b \in DOMAIN bookings, body \in StatusBodies :
        DecideCheck(p, actor, b, body) =>
            IF OverlappedBy(bookings, bookings[b], b) = {} \/ ~bookings[b].elevatorRequired
            THEN /\ proc'[p].op = "decide" /\ proc'[p].pc = "update"
                 /\ proc'[p].existing = bookings[b]
                 /\ UNCHANGED resp
            ELSE /\ proc' = proc
                 /\ resp' = [op |-> "decide", res |-> "conflict"]
                 /\ UNCHANGED <<bookings, audit, outbox>>]_vars

\* a status decision was refused with a conflict error: two active elevator
\* bookings lie inside each other's buffer, beside the stairs booking
C32_Witness ==
    /\ resp = [op |-> "decide", res |-> "conflict"]
    /\ ActiveOverlap
    /\ \E b \in DOMAIN bookings : ~bookings[b].elevatorRequired
    /\ \A b \in DOMAIN bookings : bookings[b].status \in ActiveStatuses

----------------------------------------------------------------------------
\* Sweeps that overlap in time

\* the automatic-approval audit entries of a booking
AutoApprovals(log, b) ==
    {i \in DOMAIN log : log[i].action = "BOOKING_AUTO_APPROVED" /\ log[i].bookingId = b}

\* C33: a sweep iteration writes a booking (row, notifications, audit entry)
\* only if the booking is still SUBMITTED and has no automatic-approval
\* audit entry yet, so that no booking ever has two such entries.
C33_AutoApprovedAtMostOnce ==
    [][\A p \in Procs :
        SweepUpdate(p) =>
            \A b \in SweptBy(p) \cap DOMAIN bookings :
                (bookings'[b] # bookings[b] \/ audit' # audit \/ outbox' # outbox) =>
                    /\ bookings[b].status = "SUBMITTED"
                    /\ AutoApprovals(audit, b) = {}
                    /\ Cardinality(AutoApprovals(audit', b)) = 1]_vars

----------------------------------------------------------------------------
\* The invoice an approval link carries

\* the ledger row recorded for an invoice
LedgerRowOf(invoiceId) == CHOOSE i \in DOMAIN ledger : ledger[i].invoiceId = invoiceId

\* C35: when the handling of invoice X approves a booking, the ApprovalLink
\* created carries X's invoice id and X's client id.
C35_LinkCarriesIngestedInvoice ==
    [][\A p \in Procs :
            (MatchTx(p) /\ Len(approvals') = Len(approvals) + 1) =>
                /\ approvals'[Len(approvals')].invoiceId = proc[p].invoiceId
                /\ approvals'[Len(approvals')].clientId = ledger[LedgerRowOf(proc[p].invoiceId)].clientId]_vars

\* C36: in every reachable state each booking has at most one ApprovalLink.
C36_OneLinkPerBooking ==
    \A i, j \in DOMAIN approvals :
        approvals[i].moveRequestId = approvals[j].moveRequestId => i = j

----------------------------------------------------------------------------
\* Deleting bookings that a payment has approved

UnlinkNext ==
    \/ \E p \in Procs : SubmitCheck(p, ReqA)
    \/ \E p \in Procs : SubmitCreate(p)
    \/ \E p \in Procs, inv \in {Inv1, Inv2} : WebhookUpsert(p, inv)
    \/ \E p \in Procs : MatchRead(p)
    \/ \E p \in Procs : MatchTx(p)
    \/ \E b \in BookingIds : DeleteBooking(Manager, b)

SpecUnlink == Init /\ [][UnlinkNext]_vars

\* C37: in every reachable state every ApprovalLink references a booking
\* that exists, so no PaymentRecord counts as matched through a link to a
\* deleted booking.
C37_LinksReferenceBookings ==
    \A i \in DOMAIN approvals : approvals[i].moveRequestId \in DOMAIN bookings

----------------------------------------------------------------------------
\* User management: accounts created, given other roles and deleted while
\* residents submit

RolesNext ==
    \/ \E role \in {"CONCIERGE", "COUNCIL"} : CreateUser(Manager, Council, role)
    \/ \E userId \in UserIds, role \in Roles : UpdateUser(Manager, userId, role)
    \/ \E p \in Procs, actor \in {Manager, Council}, userId \in UserIds : DeleteUserCheck(p, actor, userId)
    \/ \E p \in Procs : DeleteUserTx(p)
    \/ \E p \in Procs : SubmitCheck(p, ReqA)
    \/ \E p \in Procs : SubmitCreate(p)
    \/ \E p \in Procs : SweepSelect(p)
    \/ \E p \in Procs : SweepUpdate(p)
    \/ Tick

SpecRoles == Init /\ [][RolesNext]_vars

\* C38: in every reachable state at least one account has role CONCIERGE.
C38_SystemActorExists == Concierges # {}

----------------------------------------------------------------------------
\* The poller over time: invoices paid at the invoicing service, polls whose
\* fetch succeeds or fails, one poll at a time

\* const since = lastPollAt ?? dayjs().subtract(STARTUP_LOOKBACK_HOURS, 'hour')
PollSince == IF lastPollAt = NoTime THEN now - STARTUP_LOOKBACK_HOURS ELSE lastPollAt

\* fetchPaidInvoices(since): the paid invoices updated at or after `since`
fetchPaidInvoices(since) ==
    SelectSeq(PollBatch, LAMBDA inv : paidInvoices[inv.id] # NoTime /\ paidInvoices[inv.id] >= since)

\* the invoicing service marks an invoice paid
Pay(id) ==
    /\ paidInvoices[id] = NoTime
    /\ paidInvoices' = [paidInvoices EXCEPT ![id] = now]
    /\ UNCHANGED <<users, bookings, nextBookingId, ledger, approvals, audit, now, proc, resp, reqLeft,
                   outbox, faults, lastPollAt>>

\* runInvoiceNinjaPoll up to the answer of the fetch: lastPollAt is set
\* before the fetch; a fetch that throws is logged and the poll returns
PollRun(p, ok) ==
    /\ FreeProc(p)
    /\ lastPollAt' = now
    /\ LET invoices == fetchPaidInvoices(PollSince)
       IN  IF ~ok THEN Finish(p, "poll", "fetch_failed")
           ELSE IF invoices = <<>> THEN Finish(p, "poll", "done")
           ELSE /\ proc' = [proc EXCEPT ![p] =
                        [op |-> "poll", pc |-> "find", inv |-> Head(invoices), rest |-> Tail(invoices)]]
                /\ UNCHANGED resp
    /\ UNCHANGED <<users, bookings, nextBookingId, ledger, approvals, audit, now, reqLeft,
                   outbox, faults, paidInvoices>>

\* the first poll runs 15 seconds after the start, and a poll goes through
\* its invoices, before an hour passes
PollerNext ==
    \/ lastPollAt # NoTime /\ ~PollRunning /\ Tick
    \/ \E inv \in {Inv1, Inv2} : Pay(inv.id)
    \/ \E p \in Procs, ok \in BOOLEAN : ~PollRunning /\ PollRun(p, ok)
    \/ \E p \in Procs : PollItemFind(p)
    \/ \E p \in Procs : PollCreate(p)
    \/ \E p \in Procs : MatchRead(p)

\* the timer keeps starting polls, a fetch succeeds again and again, and a
\* poll that has its invoices goes through them
PollerFairness ==
    /\ SF_vars(\E p \in Procs : ~PollRunning /\ PollRun(p, TRUE))
    /\ WF_vars(\E p \in Procs : PollItemFind(p))
    /\ WF_vars(\E p \in Procs : PollCreate(p))
    /\ WF_vars(\E p \in Procs : MatchRead(p))

SpecPoller == Init /\ [][PollerNext]_vars /\ PollerFairness

\* C39: every invoice that was paid is eventually in the ledger.
C39_NoPaidInvoiceLost ==
    \A inv \in {Inv1, Inv2} : (paidInvoices[inv.id] # NoTime) ~> HasLedgerRow(inv.id)

----------------------------------------------------------------------------
\* The whole program

Next ==
    \/ \E p \in Procs, req \in Requests : SubmitCheck(p, req)
    \/ \E p \in Procs : SubmitCreate(p)
    \/ \E p \in Procs, req \in Requests : IntakeCheck(p, req)
    \/ \E p \in Procs : IntakeCreate(p)
    \/ \E p \in Procs, actor \in UserIds, req \in Requests : QuickCheck(p, actor, req)
    \/ \E p \in Procs : QuickCreate(p)
    \/ \E p \in Procs, actor \in UserIds, b \in BookingIds, body \in DecideBodies :
            DecideCheck(p, actor, b, body)
    \/ \E p \in Procs : DecideUpdate(p)
    \/ \E actor \in UserIds, b \in BookingIds : DeleteBooking(actor, b)
    \/ \E p \in Procs : SweepSelect(p)
    \/ \E p \in Procs : SweepUpdate(p)
    \/ Tick
    \/ \E actor \in UserIds, u \in UserIds, role \in Roles : CreateUser(actor, u, role)
    \/ \E actor \in UserIds, u \in UserIds, role \in Roles : UpdateUser(actor, u, role)
    \/ \E p \in Procs, inv \in Invoices : WebhookUpsert(p, inv)
    \/ \E p \in Procs, inv \in Invoices : PollFind(p, inv)
    \/ \E p \in Procs : PollCreate(p)
    \/ \E p \in Procs : MatchRead(p)
    \/ \E p \in Procs : MatchTx(p)
    \/ \E p \in Procs, actor \in UserIds, id \in LedgerIds, feeType \in {"move_in", "move_out"} :
            SetFeeType(p, actor, id, feeType)
    \/ \E actor \in UserIds, id \in LedgerIds : Dismiss(actor, id, "duplicate")
    \/ \E actor \in UserIds, id \in LedgerIds : Restore(actor, id)
    \/ \E p \in Procs, actor \in UserIds : RetrySelect(p, actor)
    \/ \E p \in Procs : RetryFind(p)
    \/ \E p \in Procs : RetryCreate(p)
    \/ \E p \in Procs : RetryUpdate(p)

Spec == Init /\ [][Next]_vars

====
